---- MODULE Spec2Model ----
(***************************************************************************)
(* Branch Watch: the dialog's handlers (BranchWatchDialog.cpp) driving the *)
(* candidate store (Core::BranchWatch), with the execution thread that     *)
(* records branch hits and the CPUThreadGuard that halts it.               *)
(***************************************************************************)
EXTENDS Integers, Sequences, FiniteSets, TLC

\* ------------------------------------------------------------------ bounds
\* The execution thread records a hit only while the total_hits of the store
\* add up to less than MaxHits.
MaxHits == 2

\* The user has at most MaxCriteria of the filter's controls away from what the
\* constructor left (a check box unchecked, a line edit with text that counts)
\* at a time.
MaxCriteria == 2

\* ------------------------------------------------------- program constants
\* OnTableSetNOP writes 0x60000000, OnTableSetBLR writes 0x4e800020.
NOP_WORD == 1610612736
BLR_WORD == 1317011488

\* Core::State, in declaration order: `state > Core::State::Paused`.
Uninitialized == 0
Paused == 1
Running == Paused + 1
CoreStates == {Uninitialized, Paused, Running}

\* ------------------------------------------------------------- identities
\* An instruction word from its fields: OPCD (bits 0-5), BO (6-10), SUBOP10
\* (21-30), LK (31), and the remaining bits as given.
Word(opcd, bo, rest, subop10, lk) ==
    opcd * 67108864 + bo * 2097152 + rest + subop10 * 2 + lk

\* bc 4,2,+16 (opcode 16) and the spec's bl 0x48001001 (opcode 18, LK = 1)
BC_WORD == Word(16, 4, 131072 + 16, 0, 0)
BL_WORD == Word(18, 0, 4096, 0, 1)

Key(o, d, w, c) ==
    [origin_addr |-> o, destin_addr |-> d, original_inst |-> w, condition |-> c]

\* The branches of the emulated program, in the store's iteration order. The
\* first two differ in the condition bit alone.
AllKeys ==
    << Key(4096, 4112, BC_WORD, TRUE),
       Key(4096, 4112, BC_WORD, FALSE),
       Key(8192, 12288, BL_WORD, TRUE) >>

Ids == {AllKeys[i] : i \in 1..Len(AllKeys)}

OriginAddrs == {k.origin_addr : k \in Ids}
DestinAddrs == {k.destin_addr : k \in Ids}
Addrs == OriginAddrs \cup DestinAddrs

\* Emulated memory before any patch: each origin holds its branch, every other
\* address a non-branch word (mflr r0).
OTHER_WORD == Word(31, 0, 524288, 339, 0)
InitialWord(a) ==
    IF \E k \in Ids : k.origin_addr = a
    THEN (CHOOSE k \in Ids : k.origin_addr = a).original_inst
    ELSE OTHER_WORD

Phases == {"Blacklist", "Reduction"}

VARIABLES
    collection,     \* CandidateStore: identity -> CandidateRecord (present ids only)
    phase,          \* Phase of the store
    selection,      \* Selection: sequence of identities
    activity,       \* recorder: "Inactive" | "Active" | "Paused"
    coreState,      \* Core::GetState()
    mem,            \* emulated memory: address -> instruction word
    guard,          \* a Core::CPUThreadGuard is alive on the control thread
    ctl,            \* the handler the control thread is inside ("idle": none)
    last,           \* the handler the control thread ran last
    cpu,            \* execution thread: position inside RecordHit
    file,           \* the snapshot file (NoFile: it does not exist)
    autosave,       \* "off": m_act_autosave is unchecked; else m_autosave_filepath:
                    \* "default" (nullopt) or "custom" (a file the user picked)
    wipeEnabled,    \* m_btn_wipe_recent_hits->isEnabled()
    status,         \* m_status_bar's message
    visible,        \* isVisible()
    timerActive,    \* m_timer->isActive()
    timerSingleShot, \* m_timer->isSingleShot()
    program,        \* the branches the emulated program executes
    observed,       \* the identities whose RecordHit calls are counted
    calls,          \* history: per observed identity, the RecordHit calls completed
                    \* since the last clear; -1 once a wipe has come in between
    tainted,        \* history: the observed identities whose record a reduction, a
                    \* delete or a snapshot load has removed or replaced since the
                    \* last clear
    proxy           \* BranchWatchProxyModel: the filter's members

storeVars == <<collection, phase, selection>>
scenVars == <<program, observed>>
histVars == <<calls, tainted>>
uiVars == <<wipeEnabled, status, visible, timerActive, timerSingleShot>>
vars == <<collection, phase, selection, activity, coreState, mem, guard, ctl, last,
          cpu, file, autosave, wipeEnabled, status, visible, timerActive,
          timerSingleShot, program, observed, calls, tainted, proxy>>

\* ---------------------------------------------------------------- helpers
Recorded == DOMAIN collection
Blacklisted == {k \in Recorded : collection[k].blacklisted}
SelSet == {selection[i] : i \in 1..Len(selection)}

Remove(f, S) == [k \in (DOMAIN f) \ S |-> f[k]]

\* The identities of S as a sequence in the store's iteration order.
RECURSIVE InOrder(_, _)
InOrder(S, i) ==
    IF i > Len(AllKeys) THEN <<>>
    ELSE (IF AllKeys[i] \in S THEN <<AllKeys[i]>> ELSE <<>>) \o InOrder(S, i + 1)

RECURSIVE SumHits(_, _)
SumHits(c, S) ==
    IF S = {} THEN 0
    ELSE LET k == CHOOSE x \in S : TRUE
         IN c[k].total_hits + SumHits(c, S \ {k})

CpuIdle == [pc |-> "run", id |-> AllKeys[1], found |-> FALSE, total |-> 0, recent |-> 0]

\* ------------------------------------------------------------ the store
\* The store as one value, so that the operations compose.
Store == [collection |-> collection, phase |-> phase, selection |-> selection]

FreshRecord == [total_hits |-> 1, recent_hits |-> 1, inspected |-> FALSE,
                blacklisted |-> FALSE]

\* RecordHit's update of the record of k, from the counters its lookup read.
HitRecord(c, k, found, total, recent) ==
    IF found /\ k \in DOMAIN c
    THEN [c EXCEPT ![k].total_hits = total + 1, ![k].recent_hits = recent + 1]
    ELSE (k :> FreshRecord) @@ c

\* Selection = all recorded identities minus blacklisted ones; a no-op in
\* Reduction phase.
TransitionToReduction(s) ==
    IF s.phase # "Blacklist" THEN s
    ELSE [s EXCEPT !.phase = "Reduction",
                   !.selection = InOrder({k \in DOMAIN s.collection :
                                             ~s.collection[k].blacklisted}, 1)]

\* One reduction pass with keep-set `keep`. Reduction phase: the members of
\* the Selection outside `keep` leave it and their records are destroyed.
\* Blacklist phase: the candidates outside `keep` are excluded (blacklisted).
Reduce(s, keep) ==
    IF s.phase = "Reduction"
    THEN LET gone == {s.selection[i] : i \in 1..Len(s.selection)} \ keep
         IN [s EXCEPT !.selection = SelectSeq(s.selection, LAMBDA k : k \in keep),
                      !.collection = Remove(s.collection, gone)]
    ELSE [s EXCEPT !.collection =
            [k \in DOMAIN s.collection |->
                IF k \in keep THEN s.collection[k]
                ELSE [s.collection[k] EXCEPT !.blacklisted = TRUE]]]

ApplyTakenReduction(s) ==
    Reduce(s, {k \in DOMAIN s.collection : s.collection[k].recent_hits > 0})

ApplyNotTakenReduction(s) ==
    Reduce(s, {k \in DOMAIN s.collection : s.collection[k].recent_hits = 0})

ApplyOverwrittenReduction(s, m) ==
    Reduce(s, {k \in DOMAIN s.collection : m[k.origin_addr] # k.original_inst})

ApplyNotOverwrittenReduction(s, m) ==
    Reduce(s, {k \in DOMAIN s.collection : m[k.origin_addr] = k.original_inst})

\* "Code Path Was Taken": the first request makes the transition, the later
\* ones reduce.
CodePathWasTaken(s) ==
    IF s.phase = "Blacklist" THEN TransitionToReduction(s) ELSE ApplyTakenReduction(s)

WipeRecentHits(s) ==
    [s EXCEPT !.collection =
        [k \in DOMAIN s.collection |-> [s.collection[k] EXCEPT !.recent_hits = 0]]]

WipeInspectionData(s) ==
    [s EXCEPT !.collection =
        [k \in DOMAIN s.collection |-> [s.collection[k] EXCEPT !.inspected = FALSE]]]

EmptyCollection == [k \in {} |-> FreshRecord]

ClearAll(s) == [collection |-> EmptyCollection, phase |-> "Blacklist", selection |-> <<>>]

CanSave(s) == DOMAIN s.collection # {}

\* Delete(identities): they leave the Selection and their records are destroyed.
Delete(s, ids) ==
    [s EXCEPT !.selection = SelectSeq(s.selection, LAMBDA k : k \notin ids),
              !.collection = Remove(s.collection, ids)]

SetInspected(s, ids) ==
    [s EXCEPT !.collection =
        [k \in DOMAIN s.collection |->
            IF k \in ids THEN [s.collection[k] EXCEPT !.inspected = TRUE]
            ELSE s.collection[k]]]

\* -------------------------------------------------------- snapshot codec
Bit(b) == IF b THEN 1 ELSE 0

\* One line per record, in the store's order: origin_addr, destin_addr,
\* original_inst, condition, total_hits, recent_hits, inspected, blacklisted.
EncodeLine(k, r) ==
    << k.origin_addr, k.destin_addr, k.original_inst, Bit(k.condition),
       r.total_hits, r.recent_hits, Bit(r.inspected), Bit(r.blacklisted) >>

Encode(s) ==
    LET keys == InOrder(DOMAIN s.collection, 1)
    IN [exists |-> TRUE,
        header |-> << Bit(s.phase = "Reduction"), Len(keys) >>,
        lines |-> [i \in 1..Len(keys) |-> EncodeLine(keys[i], s.collection[keys[i]])]]

NoFile == [exists |-> FALSE, header |-> <<0, 0>>, lines |-> <<>>]

LineKey(l) == Key(l[1], l[2], l[3], l[4] = 1)
LineRecord(l) == [total_hits |-> l[5], recent_hits |-> l[6], inspected |-> l[7] = 1,
                  blacklisted |-> l[8] = 1]

WellFormed(f) ==
    /\ f.exists
    /\ f.header[1] \in {0, 1}
    /\ f.header[2] = Len(f.lines)
    /\ \A i \in 1..Len(f.lines) :
          /\ Len(f.lines[i]) = 8
          /\ \A j \in {4, 7, 8} : f.lines[i][j] \in {0, 1}

\* The store a well-formed snapshot describes. In Reduction phase the Selection
\* is the snapshot's candidates that are not blacklisted, in file order.
Decode(f) ==
    LET keys == [i \in 1..Len(f.lines) |-> LineKey(f.lines[i])]
        recOf(k) == LineRecord(f.lines[CHOOSE i \in 1..Len(f.lines) : keys[i] = k])
        coll == [k \in {keys[i] : i \in 1..Len(keys)} |-> recOf(k)]
    IN [collection |-> coll,
        phase |-> IF f.header[1] = 1 THEN "Reduction" ELSE "Blacklist",
        selection |-> IF f.header[1] = 1
                      THEN SelectSeq(keys, LAMBDA k : ~coll[k].blacklisted)
                      ELSE <<>>]

\* Snapshot files a user can pick in "Load From...": a Blacklist-phase
\* snapshot with one excluded candidate, a Reduction-phase snapshot of two
\* candidates, and a file whose header count does not match its lines.
UserFiles ==
    { Encode([collection |-> (AllKeys[1] :> FreshRecord) @@
                             (AllKeys[3] :> [FreshRecord EXCEPT !.blacklisted = TRUE]),
              phase |-> "Blacklist", selection |-> <<>>]),
      Encode([collection |-> (AllKeys[1] :> [FreshRecord EXCEPT !.recent_hits = 0]) @@
                             (AllKeys[2] :> FreshRecord),
              phase |-> "Reduction", selection |-> <<AllKeys[1], AllKeys[2]>>]),
      [exists |-> TRUE, header |-> <<1, 2>>,
       lines |-> <<EncodeLine(AllKeys[3], FreshRecord)>>] }

\* ------------------------------------------------------- the proxy's filter
\* std::optional<u32>
nullopt == [has_value |-> FALSE, value |-> 0]
Some(v) == [has_value |-> TRUE, value |-> v]

\* A QString is a sequence of characters. QString::toUInt(&ok, 16): ok when
\* the text is one hexadecimal digit or more (the line edits hold 8
\* characters at most, so that the value fits 32 bits).
HexDigits == <<"0", "1", "2", "3", "4", "5", "6", "7", "8", "9",
               "a", "b", "c", "d", "e", "f">>
UpperCase == <<"A", "B", "C", "D", "E", "F", "I", "M", "N", "T">>
LowerCase == <<"a", "b", "c", "d", "e", "f", "i", "m", "n", "t">>

ToLower(c) ==
    IF \E i \in 1..Len(UpperCase) : UpperCase[i] = c
    THEN LowerCase[CHOOSE i \in 1..Len(UpperCase) : UpperCase[i] = c]
    ELSE c

CaseFolded(s) == [i \in 1..Len(s) |-> ToLower(s[i])]

IsHexDigit(c) == \E i \in 1..Len(HexDigits) : HexDigits[i] = ToLower(c)
DigitValue(c) == (CHOOSE i \in 1..Len(HexDigits) : HexDigits[i] = ToLower(c)) - 1

RECURSIVE HexValue(_)
HexValue(s) ==
    IF s = <<>> THEN 0
    ELSE HexValue(SubSeq(s, 1, Len(s) - 1)) * 16 + DigitValue(s[Len(s)])

toUInt(text) ==
    IF text # <<>> /\ \A i \in 1..Len(text) : IsHexDigit(text[i])
    THEN [ok |-> TRUE, value |-> HexValue(text)]
    ELSE [ok |-> FALSE, value |-> 0]

\* QString::contains(text, Qt::CaseInsensitive)
Contains(s, text) ==
    \E i \in 0..(Len(s) - Len(text)) :
        SubSeq(CaseFolded(s), i + 1, i + Len(text)) = CaseFolded(text)

\* sourceModel()->GetSymbolList()[row]: the name of the symbol at an address,
\* an invalid QVariant where there is none.
NoSymbol == [valid |-> FALSE, name |-> <<>>]
SymbolAt(addr) ==
    IF addr = 4096 THEN [valid |-> TRUE, name |-> <<"M", "a", "i", "n">>]
    ELSE IF addr = 4112 THEN [valid |-> TRUE, name |-> <<"I", "n", "i", "t">>]
    ELSE NoSymbol

\* The fields of UGeckoInstruction
OPCD(inst) == inst \div 67108864
BO(inst) == (inst \div 2097152) % 32
SUBOP10(inst) == (inst \div 2) % 1024
LK(inst) == inst % 2

\* The DEBUG_ASSERT of BranchSavesLR: the word is a branch instruction.
BranchSavesLR_DEBUG_ASSERT(inst) ==
    \/ OPCD(inst) = 18
    \/ OPCD(inst) = 16
    \/ OPCD(inst) = 19 /\ (SUBOP10(inst) = 16 \/ SUBOP10(inst) = 528)

\* static constexpr bool BranchSavesLR(UGeckoInstruction inst): the LK bit
BranchSavesLR(inst) == LK(inst) = 1

\* (inst.BO & 0b10100) == 0b10100
BranchAlways(inst) == (BO(inst) \div 16) % 2 = 1 /\ (BO(inst) \div 4) % 2 = 1

\* IsBranchTypeAllowed that takes either bit of the BO pattern for "branch
\* always".
IsBranchTypeAllowed_EitherBit(p, inst) ==
    LET lr_saved == BranchSavesLR(inst)
        always == (BO(inst) \div 16) % 2 = 1 \/ (BO(inst) \div 4) % 2 = 1
    IN CASE OPCD(inst) = 18 -> IF lr_saved THEN p.m_bl ELSE p.m_b
         [] OPCD(inst) = 16 -> IF lr_saved THEN p.m_bcl ELSE p.m_bc
         [] OPCD(inst) = 19 ->
              (CASE SUBOP10(inst) = 16 ->
                      IF always
                      THEN IF lr_saved THEN p.m_blrl ELSE p.m_blr
                      ELSE IF lr_saved THEN p.m_bclrl ELSE p.m_bclr
                 [] SUBOP10(inst) = 528 ->
                      IF always
                      THEN IF lr_saved THEN p.m_bctrl ELSE p.m_bctr
                      ELSE IF lr_saved THEN p.m_bcctrl ELSE p.m_bcctr
                 [] OTHER -> FALSE)
         [] OTHER -> FALSE

\* BranchWatchProxyModel::IsBranchTypeAllowed, p the proxy's members
IsBranchTypeAllowed(p, inst) ==
    LET lr_saved == BranchSavesLR(inst)
    IN CASE OPCD(inst) = 18 -> IF lr_saved THEN p.m_bl ELSE p.m_b
         [] OPCD(inst) = 16 -> IF lr_saved THEN p.m_bcl ELSE p.m_bc
         [] OPCD(inst) = 19 ->
              (CASE SUBOP10(inst) = 16 ->
                      IF BranchAlways(inst)
                      THEN IF lr_saved THEN p.m_blrl ELSE p.m_blr
                      ELSE IF lr_saved THEN p.m_bclrl ELSE p.m_bclr
                 [] SUBOP10(inst) = 528 ->
                      IF BranchAlways(inst)
                      THEN IF lr_saved THEN p.m_bctrl ELSE p.m_bctr
                      ELSE IF lr_saved THEN p.m_bcctrl ELSE p.m_bcctr
                 [] OTHER -> FALSE)
         [] OTHER -> FALSE

\* filterAcceptsRow whose lower bound of the origin is exclusive.
filterAcceptsRow_ExclusiveMin(p, k) ==
    IF k.condition /\ ~p.m_cond_true THEN FALSE
    ELSE IF ~k.condition /\ ~p.m_cond_false THEN FALSE
    ELSE IF ~IsBranchTypeAllowed(p, k.original_inst) THEN FALSE
    ELSE IF p.m_origin_min.has_value /\ k.origin_addr <= p.m_origin_min.value THEN FALSE
    ELSE IF p.m_origin_max.has_value /\ k.origin_addr > p.m_origin_max.value THEN FALSE
    ELSE IF p.m_destin_min.has_value /\ k.destin_addr < p.m_destin_min.value THEN FALSE
    ELSE IF p.m_destin_max.has_value /\ k.destin_addr > p.m_destin_max.value THEN FALSE
    ELSE IF /\ p.m_origin_symbol_name # <<>>
            /\ LET symbol_name_v == SymbolAt(k.origin_addr)
               IN \/ ~symbol_name_v.valid
                  \/ ~Contains(symbol_name_v.name, p.m_origin_symbol_name)
         THEN FALSE
    ELSE IF /\ p.m_destin_symbol_name # <<>>
            /\ LET symbol_name_v == SymbolAt(k.destin_addr)
               IN \/ ~symbol_name_v.valid
                  \/ ~Contains(symbol_name_v.name, p.m_destin_symbol_name)
         THEN FALSE
    ELSE TRUE

\* BranchWatchProxyModel::filterAcceptsRow for the Selection's row of k, one
\* early return after the other.
filterAcceptsRow(p, k) ==
    IF k.condition /\ ~p.m_cond_true THEN FALSE
    ELSE IF ~k.condition /\ ~p.m_cond_false THEN FALSE
    ELSE IF ~IsBranchTypeAllowed(p, k.original_inst) THEN FALSE
    ELSE IF p.m_origin_min.has_value /\ k.origin_addr < p.m_origin_min.value THEN FALSE
    ELSE IF p.m_origin_max.has_value /\ k.origin_addr > p.m_origin_max.value THEN FALSE
    ELSE IF p.m_destin_min.has_value /\ k.destin_addr < p.m_destin_min.value THEN FALSE
    ELSE IF p.m_destin_max.has_value /\ k.destin_addr > p.m_destin_max.value THEN FALSE
    ELSE IF /\ p.m_origin_symbol_name # <<>>
            /\ LET symbol_name_v == SymbolAt(k.origin_addr)
               IN \/ ~symbol_name_v.valid
                  \/ ~Contains(symbol_name_v.name, p.m_origin_symbol_name)
         THEN FALSE
    ELSE IF /\ p.m_destin_symbol_name # <<>>
            /\ LET symbol_name_v == SymbolAt(k.destin_addr)
               IN \/ ~symbol_name_v.valid
                  \/ ~Contains(symbol_name_v.name, p.m_destin_symbol_name)
         THEN FALSE
    ELSE TRUE

\* The proxy's members after the dialog's constructor: every check box was
\* checked, no line edit has text.
KindToggles == {"m_b", "m_bl", "m_bc", "m_bcl", "m_blr", "m_blrl", "m_bclr", "m_bclrl",
                "m_bctr", "m_bctrl", "m_bcctr", "m_bcctrl"}
Toggles == KindToggles \cup {"m_cond_true", "m_cond_false"}
AddressMembers == {"m_origin_min", "m_origin_max", "m_destin_min", "m_destin_max"}
SymbolMembers == {"m_origin_symbol_name", "m_destin_symbol_name"}

ConstructedProxy ==
    [m \in Toggles \cup AddressMembers \cup SymbolMembers |->
        IF m \in Toggles THEN TRUE
        ELSE IF m \in AddressMembers THEN nullopt
        ELSE <<>>]

\* -------------------------------------------------------------- the view
\* m_table_proxy->rowCount(): the rows of the Selection the filter accepts.
AcceptedRow(k) == filterAcceptsRow(proxy, k)
RowCount(s) == Len(SelectSeq(s.selection, AcceptedRow))

Message(m, c, o, r) == [msg |-> m, candidates |-> c, other |-> o, remaining |-> r]

\* BranchWatchDialog::UpdateStatus, as a function of the store
StatusOf(s) ==
    IF s.phase = "Blacklist"
    THEN LET candidate_size == Cardinality(DOMAIN s.collection)
             blacklist_size == Cardinality({k \in DOMAIN s.collection :
                                               s.collection[k].blacklisted})
         IN IF blacklist_size = 0
            THEN Message("Candidates", candidate_size, 0, 0)
            ELSE Message("Excluded", candidate_size, blacklist_size,
                         candidate_size - blacklist_size)
    ELSE LET candidate_size == Len(s.selection)
             remaining_size == RowCount(s)
         IN IF candidate_size = 0
            THEN Message("Zero", 0, 0, 0)
            ELSE Message("Filtered", candidate_size, candidate_size - remaining_size,
                         remaining_size)

\* static bool TimerCondition(branch_watch, state)
TimerCondition(act, state) == act = "Active" /\ state > Paused

\* ------------------------------------------------------------------ Init
InitWidgets ==
    /\ activity = "Inactive"
    /\ coreState = Uninitialized
    /\ mem = [a \in Addrs |-> InitialWord(a)]
    /\ guard = FALSE
    /\ ctl = "idle"
    /\ last = "none"
    /\ cpu = CpuIdle
    /\ file = NoFile
    /\ autosave = "off"
    /\ wipeEnabled = FALSE
    /\ status = Message("Candidates", 0, 0, 0)
    /\ visible = FALSE
    /\ timerActive = FALSE
    /\ timerSingleShot = FALSE
    /\ calls = [k \in Ids |-> 0]
    /\ tainted = {}
    /\ proxy = ConstructedProxy

InitDialog ==
    /\ collection = EmptyCollection
    /\ phase = "Blacklist"
    /\ selection = <<>>
    /\ InitWidgets

\* After construction, with the emulated program executing every branch of Ids.
Init ==
    /\ InitDialog
    /\ program = Ids
    /\ observed = {}

\* ------------------------------------------------------ execution thread
\* RecordHit, first half: the activity check and the lookup of the identity.
\* The execution thread runs only while the core is Running and no
\* CPUThreadGuard halts it.
RecordHitLookup(k) ==
    /\ k \in program
    /\ coreState = Running
    /\ ~guard
    /\ cpu.pc = "run"
    /\ mem[k.origin_addr] = k.original_inst
    /\ SumHits(collection, DOMAIN collection) < MaxHits
    /\ cpu' = IF activity # "Active" THEN cpu
              ELSE IF k \in DOMAIN collection
              THEN [pc |-> "hit", id |-> k, found |-> TRUE,
                    total |-> collection[k].total_hits,
                    recent |-> collection[k].recent_hits]
              ELSE [pc |-> "hit", id |-> k, found |-> FALSE, total |-> 0, recent |-> 0]
    /\ UNCHANGED <<scenVars, proxy, storeVars, histVars, activity, coreState, mem, guard, ctl,
                   last, file, autosave, uiVars>>

\* RecordHit, second half: the insert or the increment of both counters.
RecordHitUpdate ==
    /\ ~guard
    /\ cpu.pc = "hit"
    /\ collection' = HitRecord(collection, cpu.id, cpu.found, cpu.total, cpu.recent)
    /\ cpu' = CpuIdle
    /\ calls' = IF cpu.id \in observed \ tainted /\ calls[cpu.id] >= 0
                THEN [calls EXCEPT ![cpu.id] = @ + 1] ELSE calls
    /\ tainted' = tainted
    /\ UNCHANGED <<scenVars, proxy, phase, selection, activity, coreState, mem, guard, ctl, last, file,
                   autosave, uiVars>>

\* -------------------------------------------------------- control thread
SetStore(s) ==
    /\ collection' = s.collection
    /\ phase' = s.phase
    /\ selection' = s.selection

\* History: the identities whose record the store s no longer holds.
Destroyed(s) == (DOMAIN collection \ DOMAIN s.collection) \cap observed

\* const Core::CPUThreadGuard guard{m_system}: the constructor returns once the
\* execution thread has reached a safe point (it is outside RecordHit) and is
\* halted; the handler h goes on under the guard.
Enter(h) ==
    /\ visible
    /\ ctl = "idle"
    /\ cpu.pc = "run"
    /\ ctl' = h
    /\ guard' = TRUE
    /\ last' = h
    /\ UNCHANGED <<scenVars, proxy, storeVars, histVars, activity, coreState, mem, cpu, file,
                   autosave, uiVars>>

\* The guard's destructor and the handler's return.
Leave(h) ==
    /\ ctl' = "idle"
    /\ guard' = FALSE
    /\ last' = h

\* A handler that takes no guard runs in one step of the control thread.
Handle(h) ==
    /\ visible
    /\ ctl = "idle"
    /\ ctl' = ctl
    /\ guard' = guard
    /\ last' = h

\* A handler that returns at once: a warning box, or a cancelled file dialog.
Return(h) ==
    /\ Handle(h)
    /\ UNCHANGED <<scenVars, proxy, storeVars, histVars, activity, coreState, mem, cpu, file,
                   autosave, uiVars>>

\* A variant of Enter with a plausible slip: the handler forgets its
\* CPUThreadGuard.
EnterUnguarded(h) ==
    /\ visible
    /\ ctl = "idle"
    /\ ctl' = h
    /\ guard' = guard
    /\ last' = h
    /\ UNCHANGED <<scenVars, proxy, storeVars, histVars, activity, coreState, mem, cpu, file,
                   autosave, uiVars>>

\* BranchWatchDialog::Save: the file is written unless it cannot be opened.
Save(s, f, opened) == IF opened THEN Encode(s) ELSE f

\* BranchWatchDialog::AutoSave: to the default snapshot file, or to the file
\* the user picked, whose contents the model does not keep.
AutoSave(s, f, opened) ==
    IF autosave = "off" \/ ~CanSave(s) THEN f
    ELSE IF autosave = "custom" THEN f
    ELSE Save(s, f, opened)

\* Load that applies the lines of the snapshot without checking its structure.
Load_Unchecked(s, f) ==
    IF ~f.exists THEN s ELSE Decode(f)

\* Load that reads the records of the snapshot and not its phase marker.
Load_RecordsOnly(s, f) ==
    IF ~f.exists \/ ~WellFormed(f) THEN s
    ELSE [collection |-> Decode(f).collection, phase |-> "Blacklist", selection |-> <<>>]

\* BranchWatchDialog::Load: nothing is read when the file cannot be opened, and
\* a malformed snapshot leaves the store as it is.
Load(s, f) == IF ~f.exists \/ ~WellFormed(f) THEN s ELSE Decode(f)

\* BranchWatchDialog::Update
Update(s) == IF s.phase = "Blacklist" THEN StatusOf(s) ELSE status

\* Start/Pause with the two branches of `checked` swapped.
OnStartPause_Swapped ==
    /\ Handle("OnStartPause")
    /\ IF activity = "Active"
       THEN /\ activity' = "Active"
            /\ timerSingleShot' = FALSE
            /\ timerActive' = IF coreState > Paused THEN TRUE ELSE timerActive
       ELSE /\ activity' = "Paused"
            /\ timerSingleShot' = TRUE
            /\ timerActive' = timerActive
    /\ status' = Update(Store)
    /\ UNCHANGED <<scenVars, proxy, storeVars, histVars, coreState, mem, cpu, file, autosave,
                   wipeEnabled, visible>>

\* A variant of the handler below with a plausible slip: pausing leaves
\* the timer periodic.
OnStartPause_StaysPeriodic ==
    /\ Handle("OnStartPause")
    /\ IF activity # "Active"
       THEN /\ activity' = "Active"
            /\ timerSingleShot' = FALSE
            /\ timerActive' = IF coreState > Paused THEN TRUE ELSE timerActive
       ELSE /\ activity' = "Paused"
            /\ timerSingleShot' = timerSingleShot
            /\ timerActive' = timerActive
    /\ status' = Update(Store)
    /\ UNCHANGED <<scenVars, proxy, storeVars, histVars, coreState, mem, cpu, file, autosave,
                   wipeEnabled, visible>>

OnStartPause ==
    /\ Handle("OnStartPause")
    /\ IF activity # "Active"
       THEN /\ activity' = "Active"
            /\ timerSingleShot' = FALSE
            /\ timerActive' = IF coreState > Paused THEN TRUE ELSE timerActive
       ELSE /\ activity' = "Paused"
            /\ timerSingleShot' = TRUE
            /\ timerActive' = timerActive
    /\ status' = Update(Store)
    /\ UNCHANGED <<scenVars, proxy, storeVars, histVars, coreState, mem, cpu, file, autosave,
                   wipeEnabled, visible>>

\* Clear Branch Watch that drops the Selection and keeps the blacklist.
OnClearBranchWatch_KeepsBlacklist ==
    \/ Enter("OnClearBranchWatch")
    \/ /\ ctl = "OnClearBranchWatch"
       /\ \E opened \in BOOLEAN :
            LET s == [collection |-> Remove(collection, Recorded \ Blacklisted),
                      phase |-> "Blacklist", selection |-> <<>>]
            IN /\ SetStore(s)
               /\ file' = AutoSave(s, file, opened)
               /\ status' = StatusOf(s)
       /\ wipeEnabled' = FALSE
       /\ calls' = [k \in Ids |-> 0]
       /\ tainted' = {}
       /\ Leave("OnClearBranchWatch")
       /\ UNCHANGED <<scenVars, proxy, activity, coreState, mem, cpu, autosave, visible,
                      timerActive, timerSingleShot>>

OnClearBranchWatch ==
    \/ Enter("OnClearBranchWatch")
    \/ /\ ctl = "OnClearBranchWatch"
       /\ \E opened \in BOOLEAN :
            LET s == ClearAll(Store)
            IN /\ SetStore(s)
               /\ file' = AutoSave(s, file, opened)
               /\ status' = StatusOf(s)
       /\ wipeEnabled' = FALSE
       /\ calls' = [k \in Ids |-> 0]
       /\ tainted' = {}
       /\ Leave("OnClearBranchWatch")
       /\ UNCHANGED <<scenVars, proxy, activity, coreState, mem, cpu, autosave, visible,
                      timerActive, timerSingleShot>>

\* "Save" without the CanSave check.
OnSave_NoCanSaveCheck ==
    \/ Enter("OnSave")
    \/ /\ ctl = "OnSave"
       /\ \E opened \in BOOLEAN : file' = Save(Store, file, opened)
       /\ Leave("OnSave")
       /\ UNCHANGED <<scenVars, proxy, storeVars, histVars, activity, coreState, mem, cpu,
                      autosave, uiVars>>

\* "Save" that writes the snapshot without a guard.
OnSave_Unguarded ==
    \/ /\ ~CanSave(Store)
       /\ Return("OnSave")
    \/ /\ CanSave(Store)
       /\ EnterUnguarded("OnSave")
    \/ /\ ctl = "OnSave"
       /\ \E opened \in BOOLEAN : file' = Save(Store, file, opened)
       /\ Leave("OnSave")
       /\ UNCHANGED <<scenVars, proxy, storeVars, histVars, activity, coreState, mem, cpu,
                      autosave, uiVars>>

\* Save to GetSnapshotDefaultFilepath()
OnSave ==
    \/ /\ ~CanSave(Store)
       /\ Return("OnSave")
    \/ /\ CanSave(Store)
       /\ Enter("OnSave")
    \/ /\ ctl = "OnSave"
       /\ \E opened \in BOOLEAN : file' = Save(Store, file, opened)
       /\ Leave("OnSave")
       /\ UNCHANGED <<scenVars, proxy, storeVars, histVars, activity, coreState, mem, cpu,
                      autosave, uiVars>>

\* Save to a file the user picks: a file other than the default one, whose
\* contents the model does not keep.
OnSaveAs ==
    \/ /\ ~CanSave(Store)
       /\ Return("OnSaveAs")
    \/ /\ CanSave(Store)
       /\ \/ Return("OnSaveAs")        \* filepath.isEmpty()
          \/ Enter("OnSaveAs")
    \/ /\ ctl = "OnSaveAs"
       /\ Leave("OnSaveAs")
       /\ UNCHANGED <<scenVars, proxy, storeVars, histVars, activity, coreState, mem, cpu, file,
                      autosave, uiVars>>

\* A variant of the load with a plausible slip: the "Wipe Recent Hits" button
\* is left as it was.
LoadBody_KeepsButton(h, f) ==
    /\ ctl = h
    /\ LET s == Load(Store, f)
       IN /\ SetStore(s)
          /\ wipeEnabled' = wipeEnabled
    /\ tainted' = IF f.exists /\ WellFormed(f) THEN observed ELSE tainted
    /\ calls' = calls
    /\ Leave(h)
    /\ UNCHANGED <<scenVars, proxy, activity, coreState, mem, cpu, file, autosave, status,
                   visible, timerActive, timerSingleShot>>

\* The body of OnLoad and OnLoadFrom, reading snapshot f under the guard.
LoadBody(h, f) ==
    /\ ctl = h
    /\ LET s == Load(Store, f)
       IN /\ SetStore(s)
          /\ wipeEnabled' = IF f.exists THEN s.phase = "Reduction" ELSE wipeEnabled
    /\ tainted' = IF f.exists /\ WellFormed(f) THEN observed ELSE tainted
    /\ calls' = calls
    /\ Leave(h)
    /\ UNCHANGED <<scenVars, proxy, activity, coreState, mem, cpu, file, autosave, status,
                   visible, timerActive, timerSingleShot>>

\* Load from GetSnapshotDefaultFilepath()
OnLoad ==
    \/ Enter("OnLoad")
    \/ LoadBody("OnLoad", file)

\* Load from a file the user picks: any of UserFiles.
OnLoadFrom ==
    \/ Return("OnLoadFrom")            \* filepath.isEmpty()
    \/ Enter("OnLoadFrom")
    \/ \E f \in UserFiles : LoadBody("OnLoadFrom", f)

\* A variant of the search step with a plausible slip: the auto-save runs
\* before the pass, not after it.
StepBody_SavesFirst(h, s, enable) ==
    /\ ctl = h
    /\ SetStore(s)
    /\ \E opened \in BOOLEAN : file' = AutoSave(Store, file, opened)
    /\ wipeEnabled' = (enable \/ wipeEnabled)
    /\ status' = StatusOf(s)
    /\ tainted' = tainted \cup Destroyed(s)
    /\ calls' = calls
    /\ Leave(h)
    /\ UNCHANGED <<scenVars, proxy, activity, coreState, mem, cpu, autosave, visible,
                   timerActive, timerSingleShot>>

\* The four search steps: the pass and the auto-save under the guard, then the
\* button and the status bar.
StepBody(h, s, enable) ==
    /\ ctl = h
    /\ SetStore(s)
    /\ \E opened \in BOOLEAN : file' = AutoSave(s, file, opened)
    /\ wipeEnabled' = (enable \/ wipeEnabled)
    /\ status' = StatusOf(s)
    /\ tainted' = tainted \cup Destroyed(s)
    /\ calls' = calls
    /\ Leave(h)
    /\ UNCHANGED <<scenVars, proxy, activity, coreState, mem, cpu, autosave, visible,
                   timerActive, timerSingleShot>>

\* Variants of the handler below, each with one plausible slip.
\* "Code Path Was Taken" with the keep-condition of "Code Path Not Taken".
OnCodePathWasTaken_Inverted ==
    \/ Enter("OnCodePathWasTaken")
    \/ StepBody("OnCodePathWasTaken",
                IF phase = "Blacklist" THEN TransitionToReduction(Store)
                ELSE ApplyNotTakenReduction(Store), TRUE)

\* "Code Path Was Taken" whose transition ignores the blacklist.
OnCodePathWasTaken_AllRecorded ==
    \/ Enter("OnCodePathWasTaken")
    \/ StepBody("OnCodePathWasTaken",
                IF phase = "Blacklist"
                THEN [Store EXCEPT !.phase = "Reduction",
                                   !.selection = InOrder(DOMAIN collection, 1)]
                ELSE ApplyTakenReduction(Store), TRUE)

\* "Code Path Was Taken" that makes the transition again on every request.
OnCodePathWasTaken_Retransition ==
    \/ Enter("OnCodePathWasTaken")
    \/ StepBody("OnCodePathWasTaken",
                IF phase = "Blacklist" THEN TransitionToReduction(Store)
                ELSE ApplyTakenReduction(
                         TransitionToReduction([Store EXCEPT !.phase = "Blacklist"])),
                TRUE)

OnCodePathWasTaken ==
    \/ Enter("OnCodePathWasTaken")
    \/ StepBody("OnCodePathWasTaken", CodePathWasTaken(Store), TRUE)

\* "Code Path Not Taken" that makes the transition as "Code Path Was Taken" does.
OnCodePathNotTaken_Transition ==
    \/ Enter("OnCodePathNotTaken")
    \/ StepBody("OnCodePathNotTaken",
                IF phase = "Blacklist" THEN TransitionToReduction(Store)
                ELSE ApplyNotTakenReduction(Store), FALSE)

\* "Code Path Not Taken" with the keep-condition of "Code Path Was Taken".
OnCodePathNotTaken_Inverted ==
    \/ Enter("OnCodePathNotTaken")
    \/ StepBody("OnCodePathNotTaken", ApplyTakenReduction(Store), FALSE)

\* "Code Path Not Taken" calling the pass of "Branch Was Not Overwritten".
OnCodePathNotTaken_WrongPass ==
    \/ Enter("OnCodePathNotTaken")
    \/ StepBody("OnCodePathNotTaken", ApplyNotOverwrittenReduction(Store, mem), FALSE)

\* "Code Path Not Taken" without its guard.
OnCodePathNotTaken_Unguarded ==
    \/ EnterUnguarded("OnCodePathNotTaken")
    \/ StepBody("OnCodePathNotTaken", ApplyNotTakenReduction(Store), FALSE)

OnCodePathNotTaken ==
    \/ Enter("OnCodePathNotTaken")
    \/ StepBody("OnCodePathNotTaken", ApplyNotTakenReduction(Store), FALSE)

\* "Branch Was Overwritten" without the check of the core's state.
OnBranchWasOverwritten_NoStateCheck ==
    \/ Enter("OnBranchWasOverwritten")
    \/ StepBody("OnBranchWasOverwritten", ApplyOverwrittenReduction(Store, mem), FALSE)

\* "Branch Was Overwritten" that calls the pass of "Branch Not Overwritten".
OnBranchWasOverwritten_Inverted ==
    \/ /\ coreState = Uninitialized
       /\ Return("OnBranchWasOverwritten")
    \/ /\ coreState # Uninitialized
       /\ Enter("OnBranchWasOverwritten")
    \/ StepBody("OnBranchWasOverwritten", ApplyNotOverwrittenReduction(Store, mem), FALSE)

OnBranchWasOverwritten ==
    \/ /\ coreState = Uninitialized
       /\ Return("OnBranchWasOverwritten")
    \/ /\ coreState # Uninitialized
       /\ Enter("OnBranchWasOverwritten")
    \/ StepBody("OnBranchWasOverwritten", ApplyOverwrittenReduction(Store, mem), FALSE)

\* "Branch Not Overwritten" with a plausible slip: the pass also populates
\* the table, as "Code Path Was Taken" does.
OnBranchNotOverwritten_Populates ==
    \/ /\ coreState = Uninitialized
       /\ Return("OnBranchNotOverwritten")
    \/ /\ coreState # Uninitialized
       /\ Enter("OnBranchNotOverwritten")
    \/ StepBody("OnBranchNotOverwritten",
                TransitionToReduction(ApplyNotOverwrittenReduction(Store, mem)), FALSE)

OnBranchNotOverwritten ==
    \/ /\ coreState = Uninitialized
       /\ Return("OnBranchNotOverwritten")
    \/ /\ coreState # Uninitialized
       /\ Enter("OnBranchNotOverwritten")
    \/ StepBody("OnBranchNotOverwritten", ApplyNotOverwrittenReduction(Store, mem),
                FALSE)

\* "Wipe Recent Hits" calling the store's wipe of the inspection data.
OnWipeRecentHits_WipesInspection ==
    /\ wipeEnabled
    /\ Handle("OnWipeRecentHits")
    /\ SetStore(WipeInspectionData(Store))
    /\ calls' = [k \in Ids |-> IF k \in observed THEN -1 ELSE calls[k]]
    /\ tainted' = tainted
    /\ UNCHANGED <<scenVars, proxy, activity, coreState, mem, cpu, file, autosave, uiVars>>

\* The button is pressed only while it is enabled. No guard is taken.
OnWipeRecentHits ==
    /\ wipeEnabled
    /\ Handle("OnWipeRecentHits")
    /\ SetStore(WipeRecentHits(Store))
    /\ calls' = [k \in Ids |-> IF k \in observed THEN -1 ELSE calls[k]]
    /\ tainted' = tainted
    /\ UNCHANGED <<scenVars, proxy, activity, coreState, mem, cpu, file, autosave, uiVars>>

\* "Wipe Inspection Data" calling the store's wipe of the recent hits.
OnWipeInspection_WipesHits ==
    /\ Handle("OnWipeInspection")
    /\ SetStore(WipeRecentHits(Store))
    /\ UNCHANGED <<scenVars, proxy, histVars, activity, coreState, mem, cpu, file, autosave,
                   uiVars>>

OnWipeInspection ==
    /\ Handle("OnWipeInspection")
    /\ SetStore(WipeInspectionData(Store))
    /\ UNCHANGED <<scenVars, proxy, histVars, activity, coreState, mem, cpu, file, autosave,
                   uiVars>>

OnToggleAutoSave ==
    /\ Handle("OnToggleAutoSave")
    /\ IF autosave # "off"
       THEN autosave' = "off"
       ELSE autosave' \in {"default", "custom"}
    /\ UNCHANGED <<scenVars, proxy, storeVars, histVars, activity, coreState, mem, cpu, file,
                   uiVars>>

\* The rows the table shows, as identities (view rows mapped to the source).
VisibleRows == {k \in SelSet : AcceptedRow(k)}

\* The table view sorts its rows by the Origin column, in the order the user
\* picks on the header.
SortOrders == {"AscendingOrder", "DescendingOrder"}

\* The rows of the source (positions in the Selection) that have a row in the
\* view, from the view's first row to its last: the accepted ones, sorted by
\* origin address, rows of one address in the order of the source.
RECURSIVE SortedRows(_, _, _)
SortedRows(rows, addrs, order) ==
    IF addrs = {} THEN <<>>
    ELSE LET a == CHOOSE x \in addrs :
                     \A y \in addrs : IF order = "AscendingOrder" THEN x <= y ELSE x >= y
         IN SelectSeq(rows, LAMBDA i : selection[i].origin_addr = a)
              \o SortedRows(rows, addrs \ {a}, order)

mapToSource(order, row) ==
    SortedRows(SelectSeq([i \in 1..Len(selection) |-> i],
                         LAMBDA i : AcceptedRow(selection[i])),
               {selection[i].origin_addr : i \in 1..Len(selection)}, order)[row]

\* A variant of the proxy's OnDelete with a plausible slip: the indices of the
\* view go to the source model as they are.
OnDelete_Unmapped(s, order, index_list) ==
    Delete(s, {s.selection[row] : row \in index_list})

\* BranchWatchProxyModel::OnDelete: the view's indices are mapped to the
\* source's, and the source model deletes those rows.
OnDelete(s, order, index_list) ==
    Delete(s, {s.selection[mapToSource(order, row)] : row \in index_list})

\* OnTableDelete / OnTableDeleteKeypress: some rows of the view are selected.
OnTableDelete ==
    /\ Handle("OnTableDelete")
    /\ \E order \in SortOrders, index_list \in (SUBSET (1..RowCount(Store))) \ {{}} :
         LET s == OnDelete(Store, order, index_list)
         IN /\ SetStore(s)
            /\ status' = StatusOf(s)
            /\ tainted' = tainted \cup Destroyed(s)
    /\ calls' = calls
    /\ UNCHANGED <<scenVars, proxy, activity, coreState, mem, cpu, file, autosave, wipeEnabled,
                   visible, timerActive, timerSingleShot>>

\* A variant of the patch with a plausible slip: the inspected flag is set on
\* every row of the table, not on the patched rows alone.
PatchRows_InspectsTable(h, rows, addrOf, word) ==
    /\ Handle(h)
    /\ cpu.pc = "run"
    /\ mem' = [a \in Addrs |-> IF a \in {addrOf[k] : k \in rows} THEN word ELSE mem[a]]
    /\ SetStore(SetInspected(Store, VisibleRows))
    /\ UNCHANGED <<scenVars, proxy, histVars, activity, coreState, cpu, file, autosave, uiVars>>

\* SetPatch under a CPUThreadGuard of its own, then SetInspected, row by row.
PatchRows(h, rows, addrOf, word) ==
    /\ Handle(h)
    /\ cpu.pc = "run"
    /\ mem' = [a \in Addrs |-> IF a \in {addrOf[k] : k \in rows} THEN word ELSE mem[a]]
    /\ SetStore(SetInspected(Store, rows))
    /\ UNCHANGED <<scenVars, proxy, histVars, activity, coreState, cpu, file, autosave, uiVars>>

\* "Insert NOP" of the origin column's context menu
OnTableSetNOP ==
    /\ coreState # Uninitialized
    /\ \E rows \in (SUBSET VisibleRows) \ {{}} :
         PatchRows("OnTableSetNOP", rows, [k \in rows |-> k.origin_addr], NOP_WORD)

\* A variant of the destination column's "Insert BLR" with a plausible slip:
\* any_of in place of all_of.
OnTableSetBLR_AnyOf ==
    /\ coreState # Uninitialized
    /\ \E rows \in (SUBSET VisibleRows) \ {{}} :
         /\ \E k \in rows : BranchSavesLR(k.original_inst)
         /\ PatchRows("OnTableSetBLR", rows, [k \in rows |-> k.destin_addr], BLR_WORD)

\* "Insert BLR" of the destination column's context menu
OnTableSetBLR ==
    /\ coreState # Uninitialized
    /\ \E rows \in (SUBSET VisibleRows) \ {{}} :
         /\ \A k \in rows : BranchSavesLR(k.original_inst)
         /\ PatchRows("OnTableSetBLR", rows, [k \in rows |-> k.destin_addr], BLR_WORD)

\* The ClickRole data of a symbol column: the address the symbol starts at
\* (the symbols of SymbolAt start at the address they are looked up by).
SymbolStart(addr) == addr

\* "Insert BLR at start" of the two symbol columns' context menu: enabled when
\* the core is initialized and every selected row has a symbol in the column.
OnTableSetBLRAtStart ==
    /\ coreState # Uninitialized
    /\ \E rows \in (SUBSET VisibleRows) \ {{}}, column \in {"OriginSymbol", "DestinSymbol"} :
         LET addr == [k \in rows |-> IF column = "OriginSymbol" THEN k.origin_addr
                                     ELSE k.destin_addr]
         IN /\ \A k \in rows : SymbolAt(addr[k]).valid
            /\ PatchRows("OnTableSetBLRAtStart", rows,
                         [k \in rows |-> SymbolStart(addr[k])], BLR_WORD)

\* ------------------------------------------------- the filter's controls
\* What the user types into the address and the symbol line edits.
AddressTexts == { <<>>, <<"1", "0", "0", "0">>, <<"3", "0", "0", "0">>,
                  <<"1", "0", "0", "g">> }
SymbolTexts == { <<>>, <<"A", "I">>, <<"i", "T">> }

\* The number of the filter's members that differ from what the constructor left.
CriteriaSet(p) ==
    Cardinality({m \in DOMAIN p : p[m] # ConstructedProxy[m]})

\* QCheckBox::toggled of a branch-type or condition check box: OnToggled<member>
\* with the box's new state and invalidateRowsFilter(), then UpdateStatus().
OnToggled(member) ==
    /\ Handle("OnToggled")
    /\ proxy' = [proxy EXCEPT ![member] = ~proxy[member]]
    /\ CriteriaSet(proxy') <= MaxCriteria
    /\ UNCHANGED <<scenVars, storeVars, histVars, activity, coreState, mem, cpu, file,
                   autosave, wipeEnabled, visible, timerActive, timerSingleShot>>
    /\ status' = StatusOf(Store)'

\* QLineEdit::textChanged of a symbol line edit: OnSymbolTextChanged<member>
OnSymbolTextChanged(member, text) ==
    /\ Handle("OnSymbolTextChanged")
    /\ proxy' = [proxy EXCEPT ![member] = text]
    /\ CriteriaSet(proxy') <= MaxCriteria
    /\ UNCHANGED <<scenVars, storeVars, histVars, activity, coreState, mem, cpu, file,
                   autosave, wipeEnabled, visible, timerActive, timerSingleShot>>
    /\ status' = StatusOf(Store)'

\* OnAddressTextChanged that stores the value of toUInt whatever `ok` says.
OnAddressTextChanged_IgnoresOk(member, text) ==
    /\ Handle("OnAddressTextChanged")
    /\ proxy' = [proxy EXCEPT ![member] = Some(toUInt(text).value)]
    /\ CriteriaSet(proxy') <= MaxCriteria
    /\ UNCHANGED <<scenVars, storeVars, histVars, activity, coreState, mem, cpu, file,
                   autosave, wipeEnabled, visible, timerActive, timerSingleShot>>
    /\ status' = StatusOf(Store)'

\* QLineEdit::textChanged of an address line edit: OnAddressTextChanged<member>
OnAddressTextChanged(member, text) ==
    /\ Handle("OnAddressTextChanged")
    /\ LET parsed == toUInt(text)
       IN proxy' = [proxy EXCEPT ![member] = IF parsed.ok THEN Some(parsed.value)
                                              ELSE nullopt]
    /\ CriteriaSet(proxy') <= MaxCriteria
    /\ UNCHANGED <<scenVars, storeVars, histVars, activity, coreState, mem, cpu, file,
                   autosave, wipeEnabled, visible, timerActive, timerSingleShot>>
    /\ status' = StatusOf(Store)'

\* ------------------------------------------------------------ the timer
OnTimeout ==
    /\ timerActive
    /\ ctl = "idle"
    /\ timerActive' = ~timerSingleShot
    /\ status' = Update(Store)
    /\ UNCHANGED <<scenVars, proxy, storeVars, histVars, activity, coreState, mem, guard, ctl,
                   last, cpu, file, autosave, wipeEnabled, visible, timerSingleShot>>

hideEvent ==
    /\ visible
    /\ ctl = "idle"
    /\ visible' = FALSE
    /\ timerActive' = FALSE
    /\ UNCHANGED <<scenVars, proxy, storeVars, histVars, activity, coreState, mem, guard, ctl,
                   last, cpu, file, autosave, wipeEnabled, status, timerSingleShot>>

\* A variant of showEvent with a plausible slip: the timer is not restarted.
showEvent_NoRestart ==
    /\ ~visible
    /\ ctl = "idle"
    /\ visible' = TRUE
    /\ timerActive' = timerActive
    /\ UNCHANGED <<scenVars, proxy, storeVars, histVars, activity, coreState, mem, guard, ctl,
                   last, cpu, file, autosave, wipeEnabled, status, timerSingleShot>>

showEvent ==
    /\ ~visible
    /\ ctl = "idle"
    /\ visible' = TRUE
    /\ timerActive' = IF TimerCondition(activity, coreState) THEN TRUE ELSE timerActive
    /\ UNCHANGED <<scenVars, proxy, storeVars, histVars, activity, coreState, mem, guard, ctl,
                   last, cpu, file, autosave, wipeEnabled, status, timerSingleShot>>

\* The core changes state (the execution thread is at a safe point) and the
\* dialog is told. Booting the core loads the program into memory.
OnEmulationStateChanged(new_state) ==
    /\ new_state # coreState
    /\ ctl = "idle"
    /\ cpu.pc = "run"
    /\ coreState' = new_state
    /\ mem' = IF coreState = Uninitialized THEN [a \in Addrs |-> InitialWord(a)] ELSE mem
    /\ IF ~visible
       THEN UNCHANGED <<timerActive, status>>
       ELSE /\ timerActive' = TimerCondition(activity, new_state)
            /\ status' = Update(Store)
    /\ UNCHANGED <<scenVars, proxy, storeVars, histVars, activity, guard, ctl, last, cpu, file,
                   autosave, wipeEnabled, visible, timerSingleShot>>

\* ------------------------------------------------------------------ Next
ExecutionThread ==
    \/ \E k \in Ids : RecordHitLookup(k)
    \/ RecordHitUpdate

\* The search: every handler but the two that write the default snapshot
\* file (OnSave, and the auto-save that OnToggleAutoSave turns on) and those of
\* the filter's controls, which stay as the constructor left them.
Next ==
    \/ ExecutionThread
    \/ OnStartPause
    \/ OnClearBranchWatch
    \/ OnSaveAs
    \/ OnLoad
    \/ OnLoadFrom
    \/ OnCodePathWasTaken
    \/ OnCodePathNotTaken
    \/ OnBranchWasOverwritten
    \/ OnBranchNotOverwritten
    \/ OnWipeRecentHits
    \/ OnWipeInspection
    \/ OnTableDelete
    \/ OnTableSetNOP
    \/ OnTableSetBLR
    \/ OnTimeout
    \/ hideEvent
    \/ showEvent
    \/ \E st \in CoreStates : OnEmulationStateChanged(st)

Spec == Init /\ [][Next]_vars

\* The snapshot file: the emulated program executes one branch, the dialog is
\* shown and the core boots; every snapshot handler and the auto-save are in
\* play, the patches and the timer are not.
InitSnap ==
    /\ InitDialog
    /\ program = {AllKeys[1]}
    /\ observed = {}

NextSnap ==
    \/ ExecutionThread
    \/ OnStartPause
    \/ OnClearBranchWatch
    \/ OnSave
    \/ OnSaveAs
    \/ OnLoad
    \/ OnLoadFrom
    \/ OnToggleAutoSave
    \/ OnCodePathWasTaken
    \/ OnCodePathNotTaken
    \/ OnBranchWasOverwritten
    \/ OnBranchNotOverwritten
    \/ OnWipeRecentHits
    \/ OnTableDelete
    \/ showEvent
    \/ OnEmulationStateChanged(Running)

SpecSnap == InitSnap /\ [][NextSnap]_vars

\* The hit counters: the emulated program executes the two branches that
\* differ in the condition bit alone, and their RecordHit calls are counted.
InitHits ==
    /\ InitDialog
    /\ program = {AllKeys[1], AllKeys[2]}
    /\ observed = {AllKeys[1], AllKeys[2]}

NextHits ==
    \/ ExecutionThread
    \/ OnStartPause
    \/ OnClearBranchWatch
    \/ OnLoadFrom
    \/ OnCodePathWasTaken
    \/ OnCodePathNotTaken
    \/ OnWipeRecentHits
    \/ OnWipeInspection
    \/ OnTableDelete
    \/ showEvent
    \/ OnEmulationStateChanged(Running)

SpecHits == InitHits /\ [][NextHits]_vars

\* The patches: the emulated program executes a conditional branch and a
\* branch-and-link, the core boots and stops, and the user runs the overwritten
\* passes and the two patches of the context menu with the auto-save in play.
InitPatch ==
    /\ InitDialog
    /\ program = {AllKeys[1], AllKeys[3]}
    /\ observed = {}

NextPatch ==
    \/ ExecutionThread
    \/ OnStartPause
    \/ OnToggleAutoSave
    \/ OnCodePathWasTaken
    \/ OnBranchWasOverwritten
    \/ OnBranchNotOverwritten
    \/ OnTableSetNOP
    \/ OnTableSetBLR
    \/ showEvent
    \/ \E st \in CoreStates : OnEmulationStateChanged(st)

SpecPatch == InitPatch /\ [][NextPatch]_vars

\* The filter: the store holds one row in Reduction phase, as a snapshot load
\* leaves it (a bc, a blrl or a word that is no branch), and the
\* user works the filter's check boxes and line edits and deletes rows.
FilterWords == {BC_WORD, Word(19, 20, 0, 16, 1), OTHER_WORD}
FilterKeys ==
    {Key(a[1], a[2], w, c) : a \in {<<4096, 4112>>, <<8192, 12288>>},
                             w \in FilterWords, c \in BOOLEAN}

InitFilter ==
    /\ InitWidgets
    /\ \E k \in FilterKeys :
          /\ collection = (k :> FreshRecord)
          /\ selection = <<k>>
    /\ phase = "Reduction"
    /\ program = {}
    /\ observed = {}

NextFilter ==
    \/ \E member \in Toggles : OnToggled(member)
    \/ \E member \in SymbolMembers, text \in SymbolTexts : OnSymbolTextChanged(member, text)
    \/ \E member \in AddressMembers, text \in AddressTexts :
          OnAddressTextChanged(member, text)
    \/ OnTableDelete
    \/ showEvent

SpecFilter == InitFilter /\ [][NextFilter]_vars

\* The delete: the Selection holds the three identities in Reduction phase,
\* as a snapshot load leaves them, in any order; the user hides rows with four
\* of the filter's check boxes, deletes rows of the view, clears, loads a
\* snapshot and presses "Code Path Was Taken".
DeleteToggles == {"m_bc", "m_bl", "m_cond_true", "m_cond_false"}

InitDelete ==
    /\ InitWidgets
    /\ collection = [k \in Ids |-> FreshRecord]
    /\ \E f \in [1..3 -> 1..3] :
          /\ \A i, j \in 1..3 : f[i] = f[j] => i = j
          /\ selection = [i \in 1..3 |-> AllKeys[f[i]]]
    /\ phase = "Reduction"
    /\ program = {}
    /\ observed = {}

NextDelete ==
    \/ \E member \in DeleteToggles : OnToggled(member)
    \/ OnTableDelete
    \/ OnClearBranchWatch
    \/ OnLoadFrom
    \/ OnCodePathWasTaken
    \/ showEvent

SpecDelete == InitDelete /\ [][NextDelete]_vars

\* The context menu: the program of the patches, with the three entries of
\* the table's context menu that write to memory.
NextMenu ==
    \/ ExecutionThread
    \/ OnStartPause
    \/ OnCodePathWasTaken
    \/ OnTableSetNOP
    \/ OnTableSetBLR
    \/ OnTableSetBLRAtStart
    \/ showEvent
    \/ \E st \in CoreStates : OnEmulationStateChanged(st)

SpecMenu == InitPatch /\ [][NextMenu]_vars

\* The refresh timer: the emulated program executes its branches; the user
\* starts and pauses the recording and shows and hides the dialog, the core
\* changes its state, and the timer fires. A QTimer that is active times out
\* once its interval has passed and the event loop is free: weak fairness.
InitTimer ==
    /\ InitDialog
    /\ program = Ids
    /\ observed = {}

NextTimer ==
    \/ ExecutionThread
    \/ OnStartPause
    \/ OnTimeout
    \/ hideEvent
    \/ showEvent
    \/ \E st \in CoreStates : OnEmulationStateChanged(st)

SpecTimer == InitTimer /\ [][NextTimer]_vars /\ WF_vars(OnTimeout)

\* The snapshot on disk: the dialog is constructed while the default snapshot
\* file holds what an earlier session or an editor has left there: a
\* Reduction-phase snapshot of a bl and of a word that is no branch, one of
\* two branches, or a Blacklist-phase snapshot of the word that is no branch.
\* The user loads it, works four of the filter's check boxes, deletes and
\* patches rows and clears; the emulated program records nothing.
ForeignKey == Key(4096, 4112, OTHER_WORD, FALSE)

DiskFiles ==
    { [exists |-> TRUE, header |-> <<1, 2>>,
       lines |-> <<EncodeLine(AllKeys[3], FreshRecord), EncodeLine(ForeignKey, FreshRecord)>>],
      [exists |-> TRUE, header |-> <<1, 2>>,
       lines |-> <<EncodeLine(AllKeys[1], FreshRecord), EncodeLine(AllKeys[3], FreshRecord)>>],
      [exists |-> TRUE, header |-> <<0, 1>>,
       lines |-> <<EncodeLine(ForeignKey, FreshRecord)>>] }

InitDisk ==
    /\ collection = EmptyCollection
    /\ phase = "Blacklist"
    /\ selection = <<>>
    /\ activity = "Inactive"
    /\ coreState = Uninitialized
    /\ mem = [a \in Addrs |-> InitialWord(a)]
    /\ guard = FALSE
    /\ ctl = "idle"
    /\ last = "none"
    /\ cpu = CpuIdle
    /\ file \in DiskFiles
    /\ autosave = "off"
    /\ wipeEnabled = FALSE
    /\ status = Message("Candidates", 0, 0, 0)
    /\ visible = FALSE
    /\ timerActive = FALSE
    /\ timerSingleShot = FALSE
    /\ calls = [k \in Ids |-> 0]
    /\ tainted = {}
    /\ proxy = ConstructedProxy
    /\ program = {}
    /\ observed = {}

NextDisk ==
    \/ OnLoad
    \/ OnClearBranchWatch
    \/ \E member \in DeleteToggles : OnToggled(member)
    \/ OnTableDelete
    \/ OnTableSetNOP
    \/ OnTableSetBLR
    \/ showEvent
    \/ \E st \in CoreStates : OnEmulationStateChanged(st)

SpecDisk == InitDisk /\ [][NextDisk]_vars

\* ================================================================ claims
K1 == AllKeys[1]
K2 == AllKeys[2]

Reductions == {"OnCodePathWasTaken", "OnCodePathNotTaken", "OnBranchWasOverwritten",
               "OnBranchNotOverwritten"}
SnapshotHandlers == {"OnSave", "OnSaveAs", "OnLoad", "OnLoadFrom"}
LoadHandlers == {"OnLoad", "OnLoadFrom"}

\* Whether the record of k was hit since the last wipe.
Hit(k) == collection[k].recent_hits > 0
NotHit(k) == collection[k].recent_hits = 0

\* ------------------------------------------------------------------- C1
\* C1 as stated: the phase changes only from Blacklist to Reduction, by a
\* "Code Path Was Taken" request, or back to Blacklist by Clear Branch Watch;
\* under every other operation it stays what it is.
C1_PhaseChangesOnlyByTakenOrClear ==
    [][phase' # phase =>
         \/ /\ phase = "Blacklist"
            /\ phase' = "Reduction"
            /\ ctl = "OnCodePathWasTaken"
         \/ /\ ctl = "OnClearBranchWatch"
            /\ phase' = "Blacklist"]_vars

\* C1 as amended: the phase changes only from Blacklist to Reduction by a
\* "Code Path Was Taken" request, to Blacklist by Clear Branch Watch, or to
\* the phase of the snapshot by a snapshot load that succeeds.
C1_PhaseChangesOnlyByTakenClearOrLoad ==
    [][phase' # phase =>
         \/ /\ phase = "Blacklist"
            /\ phase' = "Reduction"
            /\ ctl = "OnCodePathWasTaken"
         \/ /\ ctl = "OnClearBranchWatch"
            /\ phase' = "Blacklist"
         \/ /\ ctl \in LoadHandlers
            /\ \E f \in UserFiles \cup {file} :
                  /\ WellFormed(f)
                  /\ phase' = Decode(f).phase]_vars

\* C1's case: the first "Code Path Was Taken" has made the transition and the
\* store holds a Selection.
C1_Witness ==
    /\ phase = "Reduction"
    /\ ctl = "idle"
    /\ last = "OnCodePathWasTaken"
    /\ selection # <<>>

\* ------------------------------------------------------------------- C2
\* The counters of an observed identity I match the RecordHit(I) calls
\* counted for it.
CountersMatch(I) ==
    /\ I \in Recorded
    /\ collection[I].total_hits = calls[I]
    /\ collection[I].recent_hits = calls[I]

\* C2 as stated: after N >= 1 RecordHit(I) calls with no wipe or clear in
\* between, I is recorded with total_hits = recent_hits = N, whatever hits
\* the identity of the other condition bit received.
C2_HitsCountedSinceClear ==
    \A I \in observed : calls[I] >= 1 => CountersMatch(I)

\* C2 as amended: after N >= 1 RecordHit(I) calls with no wipe, clear,
\* removal of I's record (by a reduction or a delete) or snapshot load in
\* between, I is recorded with total_hits = recent_hits = N, whatever hits
\* the identity of the other condition bit received.
C2_HitsCountedWhileRecordKept ==
    \A I \in observed \ tainted : calls[I] >= 1 => CountersMatch(I)

\* C2's case: two identities that differ in the condition bit alone have each
\* been hit, and each has a record of its own with both counters at 1.
C2_Witness ==
    /\ K1.condition # K2.condition
    /\ [K1 EXCEPT !.condition = K2.condition] = K2
    /\ {K1, K2} \subseteq observed \ tainted
    /\ calls[K1] = 1
    /\ calls[K2] = 1
    /\ CountersMatch(K1)
    /\ CountersMatch(K2)

\* ------------------------------------------------------------------- C3
\* C3: a "Code Path Was Taken" pass in Reduction phase leaves in the
\* Selection exactly its members whose recent_hits > 0 when the pass runs, in
\* their order, and adds nothing.
C3_TakenKeepsRecentlyHit ==
    [][ctl = "OnCodePathWasTaken" /\ phase = "Reduction" /\ ctl' = "idle" =>
         selection' = SelectSeq(selection, Hit)]_vars

\* C3's case: the pass is about to run on a Selection with a member that was
\* hit since the last wipe and a member that was not.
C3_Witness ==
    /\ ctl = "OnCodePathWasTaken"
    /\ phase = "Reduction"
    /\ \E k \in SelSet : Hit(k)
    /\ \E k \in SelSet : NotHit(k)

\* ------------------------------------------------------------------- C4
\* C4: a "Code Path Not Taken" pass in Reduction phase leaves in the
\* Selection exactly its members whose recent_hits = 0; the Selection's size
\* drops by the number of members hit since the last wipe.
C4_NotTakenKeepsNotHit ==
    [][ctl = "OnCodePathNotTaken" /\ phase = "Reduction" /\ ctl' = "idle" =>
         /\ selection' = SelectSeq(selection, NotHit)
         /\ Len(selection') = Len(selection) - Cardinality({k \in SelSet : Hit(k)})]_vars

\* C4's case, the spec's scenario: recording was started, the identity was
\* hit after the last wipe (recent_hits = 1), it is the one member of the
\* Selection that was, and the pass is about to run.
C4_Witness ==
    /\ ctl = "OnCodePathNotTaken"
    /\ phase = "Reduction"
    /\ activity = "Active"
    /\ Cardinality({k \in SelSet : Hit(k)}) = 1
    /\ \E k \in SelSet : collection[k].recent_hits = 1

\* ------------------------------------------------------------------- C5
\* C5: for the Selection of every store the program reaches, the Taken pass
\* followed by the Not Taken pass leaves it empty; and a "Code Path Not
\* Taken" request on a Selection as a Taken pass leaves it (no wipe since)
\* empties the Selection.
C5_TakenThenNotTakenEmpties ==
    [][/\ phase = "Reduction" =>
            ApplyNotTakenReduction(ApplyTakenReduction(Store)).selection = <<>>
       /\ /\ ctl = "OnCodePathNotTaken"
          /\ phase = "Reduction"
          /\ ctl' = "idle"
          /\ ApplyTakenReduction(Store) = Store
          => selection' = <<>>]_vars

\* C5's case: "Code Path Not Taken" is about to run on a Selection of two
\* members, which a Taken pass leaves as it is.
C5_Witness ==
    /\ ctl = "OnCodePathNotTaken"
    /\ phase = "Reduction"
    /\ Len(selection) = 2
    /\ ApplyTakenReduction(Store) = Store

\* ------------------------------------------------------------------- C6
\* C6: the transition (the first "Code Path Was Taken", from Blacklist phase)
\* sets the phase to Reduction and the Selection, as a set, to the recorded
\* identities minus the blacklisted ones, and changes no record; a second
\* TransitionToReduction on the store it leaves changes nothing.
C6_TransitionSelectsNotBlacklisted ==
    [][ctl = "OnCodePathWasTaken" /\ phase = "Blacklist" /\ ctl' = "idle" =>
         /\ phase' = "Reduction"
         /\ SelSet' = Recorded \ Blacklisted
         /\ Len(selection') = Cardinality(SelSet')
         /\ collection' = collection
         /\ TransitionToReduction(Store') = Store']_vars

\* C6's case: the transition is about to run on a store with a blacklisted
\* candidate and one that is not.
C6_Witness ==
    /\ ctl = "OnCodePathWasTaken"
    /\ phase = "Blacklist"
    /\ Blacklisted # {}
    /\ Recorded \ Blacklisted # {}

\* ------------------------------------------------------------------- C7
\* C7 as stated: from one Reduction-phase state to the next, under every
\* operation (snapshot load included), no identity enters the Selection.
C7_SelectionOnlyShrinks ==
    [][phase = "Reduction" /\ phase' = "Reduction" => SelSet' \subseteq SelSet]_vars

\* C7 as amended: from one Reduction-phase state to the next, under every
\* operation but a snapshot load (hits, reductions, wipes, delete, snapshot
\* save, Start/Pause), no identity enters the Selection; a snapshot load
\* that succeeds replaces the Selection by the snapshot's.
C7_SelectionOnlyShrinksButByLoad ==
    [][phase = "Reduction" /\ phase' = "Reduction" =>
         \/ SelSet' \subseteq SelSet
         \/ /\ ctl \in LoadHandlers
            /\ \E f \in UserFiles \cup {file} :
                  /\ WellFormed(f)
                  /\ selection' = Decode(f).selection]_vars

\* C7's case: in Reduction phase, after a reduction, an identity recorded
\* after the transition has a record (not blacklisted) and is not in the
\* Selection, which still has members.
C7_Witness ==
    /\ phase = "Reduction"
    /\ ctl = "idle"
    /\ last \in Reductions
    /\ selection # <<>>
    /\ \E k \in Recorded \ SelSet : ~collection[k].blacklisted

\* ------------------------------------------------------------------- C8
\* C8: whenever the control thread is inside a reduction (Was Taken, Not
\* Taken, Was Overwritten, Not Overwritten) or a clear, the guard is held and
\* the execution thread is halted outside RecordHit: not between its lookup
\* and its insert or increment.
C8_PassesRunUnderGuard ==
    ctl \in Reductions \cup {"OnClearBranchWatch"} => guard /\ cpu.pc = "run"

\* C8's case: a reduction is about to run while recording is active, the core
\* is running and the store holds records.
C8_Witness ==
    /\ ctl \in Reductions
    /\ guard
    /\ activity = "Active"
    /\ coreState = Running
    /\ Recorded # {}

\* ------------------------------------------------------------------- C9
\* C9: no step of the control thread changes a record's recent_hits ("Wipe
\* Recent Hits" included) while a RecordHit is between its lookup and its
\* update: the guard, held for as long as the operation touches recent_hits,
\* keeps the execution thread out of RecordHit, so no RecordHit interleaves
\* with a wipe.
C9_RecentHitsChangeUnderGuard ==
    [][/\ cpu' = cpu
       /\ \E k \in Recorded \cap DOMAIN collection' :
             collection'[k].recent_hits # collection[k].recent_hits
       => cpu.pc = "run"]_vars

\* ------------------------------------------------------------------ C10
\* C10 as stated: the execution thread is not halted while a snapshot handler
\* (Save, Save As, Load, Load From) runs, nor when the snapshot file is
\* written (the auto-save included).
C10_SnapshotNeverHalts ==
    [][(ctl \in SnapshotHandlers \/ file' # file) => (~guard)]_vars

\* C10 as amended: snapshot file I/O runs under the guard: the execution
\* thread is halted, outside RecordHit, for as long as a snapshot handler
\* reads or writes the file and whenever the snapshot file is written (the
\* auto-save included), and it is released when the handler returns.
C10_SnapshotRunsUnderGuard ==
    [][(ctl \in SnapshotHandlers \/ file' # file) =>
         /\ guard
         /\ cpu.pc = "run"
         /\ ~guard']_vars

\* C10's case: "Save" is about to write the snapshot of a store with records
\* while recording is active and the core is running.
C10_Witness ==
    /\ ctl = "OnSave"
    /\ guard
    /\ activity = "Active"
    /\ coreState = Running
    /\ CanSave(Store)

\* ------------------------------------------------------------------ C11
\* C11: "Wipe Recent Hits" sets recent_hits to 0 on every record and leaves
\* every record's total_hits, inspected flag and blacklist membership, the
\* recorded identities, the Selection (members and order) and the phase as
\* they are.
C11_WipeTouchesRecentHitsOnly ==
    [][OnWipeRecentHits =>
         /\ DOMAIN collection' = DOMAIN collection
         /\ \A k \in DOMAIN collection :
               /\ collection'[k].recent_hits = 0
               /\ collection'[k].total_hits = collection[k].total_hits
               /\ collection'[k].inspected = collection[k].inspected
               /\ collection'[k].blacklisted = collection[k].blacklisted
         /\ selection' = selection
         /\ phase' = phase]_vars

\* C11's case: the wipe has run on a store with a Selection, a record hit
\* before the wipe, an inspected record and a blacklisted one.
C11_Witness ==
    /\ last = "OnWipeRecentHits"
    /\ selection # <<>>
    /\ \A k \in Recorded : collection[k].recent_hits = 0
    /\ \E k \in Recorded : collection[k].total_hits > 0
    /\ \E k \in Recorded : collection[k].inspected
    /\ \E k \in Recorded : collection[k].blacklisted

C13_ClearResetsStore ==
    [][ctl = "OnClearBranchWatch" /\ ctl' = "idle" =>
         /\ Recorded' = {}
         /\ Blacklisted' = {}
         /\ selection' = <<>>
         /\ phase' = "Blacklist"
         /\ ~CanSave(Store')
         /\ activity' = activity]_vars

\* C13's case: the clear is about to run in Reduction phase, while recording
\* is active, on a store with a Selection and a blacklisted candidate.
C13_Witness ==
    /\ ctl = "OnClearBranchWatch"
    /\ phase = "Reduction"
    /\ activity = "Active"
    /\ selection # <<>>
    /\ Blacklisted # {}

\* ------------------------------------------------------------------ C14
\* Whether the word now in memory at k's origin differs from the word k was
\* recorded with.
Overwritten(k) == mem[k.origin_addr] # k.original_inst
NotOverwritten(k) == mem[k.origin_addr] = k.original_inst

\* C14: "Branch Was Overwritten" leaves in the Selection exactly its members
\* whose memory word at origin_addr differs from original_inst, "Branch Not
\* Overwritten" exactly those whose word equals it; on every store the program
\* reaches the two results share no member and together make up the
\* Selection, and neither depends on the inspected flags.
C14_OverwrittenSplitsSelection ==
    [][/\ ctl = "OnBranchWasOverwritten" /\ ctl' = "idle" =>
            selection' = SelectSeq(selection, Overwritten)
       /\ ctl = "OnBranchNotOverwritten" /\ ctl' = "idle" =>
            selection' = SelectSeq(selection, NotOverwritten)
       /\ phase = "Reduction" =>
            LET was == ApplyOverwrittenReduction(Store, mem).selection
                not == ApplyNotOverwrittenReduction(Store, mem).selection
                Members(q) == {q[i] : i \in 1..Len(q)}
            IN /\ Members(was) \cap Members(not) = {}
               /\ Members(was) \cup Members(not) = SelSet
               /\ Len(was) + Len(not) = Len(selection)
               /\ ApplyOverwrittenReduction(SetInspected(Store, Recorded), mem).selection = was
               /\ ApplyOverwrittenReduction(WipeInspectionData(Store), mem).selection = was
               /\ ApplyNotOverwrittenReduction(SetInspected(Store, Recorded), mem).selection = not
               /\ ApplyNotOverwrittenReduction(WipeInspectionData(Store), mem).selection = not]_vars

\* C14's case: "Branch Was Overwritten" is about to run on a Selection with an
\* inspected member whose origin was patched and a member, not inspected,
\* whose origin still holds the recorded word.
C14_Witness ==
    /\ ctl = "OnBranchWasOverwritten"
    /\ phase = "Reduction"
    /\ \E k \in SelSet : Overwritten(k) /\ collection[k].inspected
    /\ \E k \in SelSet : NotOverwritten(k) /\ ~collection[k].inspected

\* ------------------------------------------------------------------ C15
\* C15: while the core is Uninitialized, a request for "Branch Was
\* Overwritten", "Branch Not Overwritten", "Insert NOP" or "Insert BLR" is
\* refused: the store and the emulated memory stay as they are, no guard is
\* taken and no snapshot (auto-save) is written.
C15_RefusedWhenUninitialized ==
    [][/\ coreState = Uninitialized
       /\ ctl = "idle"
       /\ \/ OnBranchWasOverwritten
          \/ OnBranchNotOverwritten
          \/ OnTableSetNOP
          \/ OnTableSetBLR
       => /\ UNCHANGED <<storeVars, mem, file>>
          /\ ~guard'
          /\ ctl' = "idle"]_vars

\* C15's case: "Branch Was Overwritten" was the last request, made with the
\* core Uninitialized and the auto-save on, on a Selection that holds a
\* patched member and one that is not patched: the pass has not run.
C15_Witness ==
    /\ coreState = Uninitialized
    /\ ctl = "idle"
    /\ last = "OnBranchWasOverwritten"
    /\ autosave = "default"
    /\ phase = "Reduction"
    /\ \E k \in SelSet : Overwritten(k)
    /\ \E k \in SelSet : NotOverwritten(k)

\* ------------------------------------------------------------------ C16
\* C16 as stated: for every store the program reaches, Decode(Encode(store))
\* is the store, field for field: phase, blacklist, Selection and every
\* record's identity, total_hits, recent_hits, inspected and blacklisted.
C16_RoundTrip ==
    Decode(Encode(Store)) = Store

\* The Selection is what the snapshot's lines determine: in Reduction phase
\* the candidates that are not blacklisted, all of them.
SelectionIsCandidates ==
    phase = "Reduction" => SelSet = Recorded \ Blacklisted

\* C16 as amended: for every store the program reaches in which every
\* candidate that is not blacklisted is in the Selection (none was recorded
\* after the transition), Decode(Encode(store)) is the store, field for field;
\* and "Load" of the snapshot that "Save" wrote of such a store leaves it as
\* it is.
C16_RoundTripWhenSelectionIsCandidates ==
    [][/\ SelectionIsCandidates => Decode(Encode(Store)) = Store
       /\ /\ ctl = "OnLoad"
          /\ ctl' = "idle"
          /\ file = Encode(Store)
          /\ SelectionIsCandidates
          => Store' = Store]_vars

\* C16's case: "Load" is about to read the snapshot that was saved of the
\* store as it is now: in Reduction phase, with a Selection, a blacklisted
\* candidate and counters that differ.
C16_Witness ==
    /\ ctl = "OnLoad"
    /\ file = Encode(Store)
    /\ SelectionIsCandidates
    /\ phase = "Reduction"
    /\ selection # <<>>
    /\ Blacklisted # {}
    /\ \E k \in Recorded : collection[k].total_hits # collection[k].recent_hits

C18_SavesGatedOnCanSave ==
    [][/\ CanSave(Store) <=> Cardinality(Recorded) >= 1
       /\ ~CanSave(Store) /\ ctl = "idle" /\ (OnSave \/ OnSaveAs) =>
            /\ file' = file
            /\ ~guard'
            /\ ctl' = "idle"
       /\ file' # file =>
            /\ CanSave(Store')
            /\ file' = Encode(Store')]_vars

\* C18's case: with the auto-save on, an earlier snapshot on disk and the
\* store cleared, "Save" was the last request: neither the clear's auto-save
\* nor the "Save" has overwritten the snapshot.
C18_Witness ==
    /\ ctl = "idle"
    /\ last = "OnSave"
    /\ ~CanSave(Store)
    /\ autosave = "default"
    /\ file.exists
    /\ Len(file.lines) >= 1

\* ------------------------------------------------------------------ C19
\* Instruction words of every opcode and sub-opcode the table names and of
\* some it does not, with BO in and out of the pattern 1z1zz, LK 0 and 1.
InstWords ==
    {Word(opcd, bo, 0, subop10, lk) :
        opcd \in {16, 17, 18, 19, 31}, bo \in {0, 4, 12, 16, 20, 21, 28, 31},
        subop10 \in {0, 16, 150, 528}, lk \in {0, 1}}

\* The spec's classification table: the branch kind of an instruction word,
\* as the name of the kind's toggle, or "rejected".
KindOf(inst) ==
    LET opcd == inst \div 67108864
        sub == (inst % 2048) \div 2
        always == ((inst \div 2097152) % 32) \in {20, 21, 22, 23, 28, 29, 30, 31}
        pair == IF opcd = 18 THEN <<"m_b", "m_bl">>
                ELSE IF opcd = 16 THEN <<"m_bc", "m_bcl">>
                ELSE IF opcd = 19 /\ sub = 16 /\ always THEN <<"m_blr", "m_blrl">>
                ELSE IF opcd = 19 /\ sub = 16 THEN <<"m_bclr", "m_bclrl">>
                ELSE IF opcd = 19 /\ sub = 528 /\ always THEN <<"m_bctr", "m_bctrl">>
                ELSE IF opcd = 19 /\ sub = 528 THEN <<"m_bcctr", "m_bcctrl">>
                ELSE <<"rejected", "rejected">>
    IN pair[1 + (inst % 2)]

FilterHandlers == {"OnToggled", "OnSymbolTextChanged", "OnAddressTextChanged"}

\* A bound that is not set admits every address.
AtLeast(addr, bound) == bound.has_value => addr >= bound.value
AtMost(addr, bound) == bound.has_value => addr <= bound.value

\* A symbol filter that is empty admits every row; one with text admits the
\* rows whose address has a symbol with the text in its name, whatever the case.
SymbolMatches(addr, text) ==
    \/ text = <<>>
    \/ /\ SymbolAt(addr) # NoSymbol
       /\ Contains(SymbolAt(addr).name, text)

\* The six conditions of the spec on the row of k, under the criteria p.
SixConditions(p, k) ==
    /\ k.condition \in {c \in BOOLEAN : IF c THEN p.m_cond_true ELSE p.m_cond_false}
    /\ KindOf(k.original_inst) \in {t \in KindToggles : p[t]}
    /\ AtLeast(k.origin_addr, p.m_origin_min) /\ AtMost(k.origin_addr, p.m_origin_max)
    /\ AtLeast(k.destin_addr, p.m_destin_min) /\ AtMost(k.destin_addr, p.m_destin_max)
    /\ SymbolMatches(k.origin_addr, p.m_origin_symbol_name)
    /\ SymbolMatches(k.destin_addr, p.m_destin_symbol_name)

\* C20: a row of the Selection is visible exactly when the six conditions
\* hold (condition flag in the condition mask, branch kind in the kind mask,
\* origin and destination within the bounds that are set, each symbol filter
\* empty or contained, whatever the case, in the name of the symbol on its
\* side); a row with no symbol on a side is not visible while that side's
\* filter has text; and the count of remaining rows that a change of the
\* filter puts in the status bar is the count of the rows that meet the six.
C20_VisibleIffSixConditions ==
    /\ \A k \in SelSet :
          /\ k \in VisibleRows <=> SixConditions(proxy, k)
          /\ proxy.m_origin_symbol_name # <<>> /\ SymbolAt(k.origin_addr) = NoSymbol
                => k \notin VisibleRows
          /\ proxy.m_destin_symbol_name # <<>> /\ SymbolAt(k.destin_addr) = NoSymbol
                => k \notin VisibleRows
    /\ last \in FilterHandlers /\ selection # <<>> =>
          status.remaining = Cardinality({k \in SelSet : SixConditions(proxy, k)})

\* C20's case: the user typed the origin of the row as the lower bound of the
\* origin and then a symbol text that the name of the row's destination
\* contains in another case; the row is visible.
C20_Witness ==
    /\ last = "OnSymbolTextChanged"
    /\ \E k \in VisibleRows :
          /\ proxy.m_origin_min = Some(k.origin_addr)
          /\ proxy.m_destin_symbol_name = <<"i", "T">>
          /\ SymbolAt(k.destin_addr).name = <<"I", "n", "i", "t">>
    /\ status.remaining = 1

\* ------------------------------------------------------------------ C21
\* The criteria p with the bounds of one side taken away.
WithoutBounds(p, min, max) == [p EXCEPT ![min] = nullopt, ![max] = nullopt]

\* Whether addr lies in the range of the bounds that are set, both ends
\* included.
InRange(addr, min, max) ==
    /\ min.has_value => min.value <= addr
    /\ max.has_value => addr <= max.value

\* C21: the rows the filter accepts are exactly the rows it accepts without
\* the origin bounds whose origin_addr lies in [min, max], both ends
\* included, and the same for the destination bounds; a range with min > max
\* leaves no row; a text that does not parse as hexadecimal (the empty text
\* included) leaves its bound unset, and a text that parses sets it to the
\* number it reads as.
C21_RangeIsInclusive ==
    [][/\ \A k \in SelSet :
            /\ AcceptedRow(k) <=>
                 /\ filterAcceptsRow(WithoutBounds(proxy, "m_origin_min", "m_origin_max"), k)
                 /\ InRange(k.origin_addr, proxy.m_origin_min, proxy.m_origin_max)
            /\ AcceptedRow(k) <=>
                 /\ filterAcceptsRow(WithoutBounds(proxy, "m_destin_min", "m_destin_max"), k)
                 /\ InRange(k.destin_addr, proxy.m_destin_min, proxy.m_destin_max)
       /\ \/ /\ proxy.m_origin_min.has_value /\ proxy.m_origin_max.has_value
             /\ proxy.m_origin_min.value > proxy.m_origin_max.value
          \/ /\ proxy.m_destin_min.has_value /\ proxy.m_destin_max.has_value
             /\ proxy.m_destin_min.value > proxy.m_destin_max.value
          => VisibleRows = {}
       /\ \A member \in AddressMembers :
            /\ \A text \in {<<>>, <<"1", "0", "0", "g">>} :
                  OnAddressTextChanged(member, text) => proxy'[member] = nullopt
            /\ OnAddressTextChanged(member, <<"1", "0", "0", "0">>) =>
                  proxy'[member] = Some(4096)
            /\ OnAddressTextChanged(member, <<"3", "0", "0", "0">>) =>
                  proxy'[member] = Some(12288)]_vars

\* C21's case: the user typed the origin of the row as the lower and as the
\* upper bound of the origin, and the row is visible.
C21_Witness ==
    /\ last = "OnAddressTextChanged"
    /\ \E k \in VisibleRows :
          /\ proxy.m_origin_min = Some(k.origin_addr)
          /\ proxy.m_origin_max = Some(k.origin_addr)
    /\ status.remaining = 1

\* ------------------------------------------------------------------ C22
\* The status summary computed from the store, as the spec words it.
SummaryOf(s) ==
    IF s.phase = "Blacklist"
    THEN LET candidates == Cardinality(DOMAIN s.collection)
             excluded == Cardinality({k \in DOMAIN s.collection : s.collection[k].blacklisted})
         IN [candidates |-> candidates, other |-> excluded, remaining |-> candidates - excluded]
    ELSE LET candidates == Len(s.selection)
             remaining == Cardinality({i \in 1..Len(s.selection) : AcceptedRow(s.selection[i])})
         IN [candidates |-> candidates, other |-> candidates - remaining,
             remaining |-> remaining]

\* The numbers the status bar shows. A message shows a number or leaves it
\* out: "Candidates: n" shows no excluded count, "Zero candidates remaining"
\* shows none.
Shown(st, s) ==
    IF st.msg = "Candidates"
    THEN st.candidates = SummaryOf(s).candidates /\ SummaryOf(s).other = 0
    ELSE IF st.msg = "Zero" THEN SummaryOf(s).candidates = 0 /\ s.phase = "Reduction"
    ELSE /\ st.msg = (IF s.phase = "Blacklist" THEN "Excluded" ELSE "Filtered")
         /\ [candidates |-> st.candidates, other |-> st.other,
             remaining |-> st.remaining] = SummaryOf(s)

Patched(addrOf(_), word) ==
    \E rows \in (SUBSET VisibleRows) \ {{}} :
       /\ \A a \in Addrs :
            mem'[a] = IF \E k \in rows : addrOf(k) = a THEN word ELSE mem[a]
       /\ DOMAIN collection' = DOMAIN collection
       /\ \A k \in DOMAIN collection :
            collection'[k] = [collection[k] EXCEPT !.inspected = @ \/ k \in rows]
       /\ <<phase, selection>>' = <<phase, selection>>

OriginOf(k) == k.origin_addr
DestinOf(k) == k.destin_addr

\* The records that are in the store before and after a step.
Surviving == DOMAIN collection \cap DOMAIN collection'

\* C23: Insert NOP writes 0x60000000 at the origin and Insert BLR 0x4e800020
\* at the destination of the rows they are applied to, and set inspected on
\* exactly those rows; a record's inspected flag, once set, stays set for as
\* long as the record lives, under every step but "Wipe Inspection Data" (and
\* a snapshot load, which replaces the records); Wipe Inspection Data clears
\* inspected on every record and changes nothing else in the store or in
\* memory.
C23_InspectedUntilWiped ==
    [][/\ OnTableSetNOP => Patched(OriginOf, 1610612736)
       /\ OnTableSetBLR => Patched(DestinOf, 1317011488)
       /\ (\E k \in Surviving : collection[k].inspected /\ ~collection'[k].inspected)
            => \/ last' = "OnWipeInspection" /\ ctl = "idle"
               \/ ctl \in LoadHandlers
       /\ (\E k \in DOMAIN collection' :
              collection'[k].inspected /\ (k \in DOMAIN collection => ~collection[k].inspected))
            => \/ last' \in {"OnTableSetNOP", "OnTableSetBLR"} /\ ctl = "idle"
               \/ ctl \in LoadHandlers
       /\ OnWipeInspection
            => /\ DOMAIN collection' = DOMAIN collection
               /\ \A k \in DOMAIN collection :
                    collection'[k] = [collection[k] EXCEPT !.inspected = FALSE]
               /\ <<phase, selection, mem, file>>' = <<phase, selection, mem, file>>]_vars

\* A record patched by Insert NOP is still inspected after a wipe of the
\* recent hits, with a hit recorded since.
C23_Witness ==
    /\ last = "OnWipeRecentHits"
    /\ \E k \in SelSet :
         /\ collection[k].inspected
         /\ mem[k.origin_addr] = NOP_WORD
         /\ collection[k].total_hits > 1
         /\ collection[k].recent_hits = 0

\* ------------------------------------------------------------------ C24
\* The delete step removes some rows of the view, and only those, from the
\* Selection, and leaves the other identities' records and the phase alone.
DeletesVisibleRows ==
    \E rows \in (SUBSET VisibleRows) \ {{}} :
       /\ selection' = SelectSeq(selection, LAMBDA k : k \notin rows)
       /\ DOMAIN collection \ rows \subseteq DOMAIN collection'
       /\ DOMAIN collection' \subseteq DOMAIN collection
       /\ \A k \in DOMAIN collection \ rows : collection'[k] = collection[k]
       /\ phase' = phase

\* C24 as stated: a delete removes from the Selection exactly the identities
\* of the selected rows of the view, under any filter and sort order, and
\* leaves every other member and record unchanged; an identity enters the
\* Selection only in the transition out of Blacklist phase, and the phase
\* returns to Blacklist only by a full clear, so a removed identity is not
\* in the Selection again before a full clear.
C24_DeletedStayOutUntilClear ==
    [][/\ OnTableDelete => DeletesVisibleRows
       /\ ~(SelSet' \subseteq SelSet) => phase = "Blacklist" /\ ctl = "OnCodePathWasTaken"
       /\ phase = "Reduction" /\ phase' = "Blacklist" => ctl = "OnClearBranchWatch"]_vars

\* C24 as amended: the same, but a snapshot load that succeeds replaces the
\* Selection and the phase by the snapshot's, so a removed identity is not
\* in the Selection again before a full clear or a snapshot load.
C24_DeletedStayOutUntilClearOrLoad ==
    [][/\ OnTableDelete => DeletesVisibleRows
       /\ ~(SelSet' \subseteq SelSet) =>
            \/ phase = "Blacklist" /\ ctl = "OnCodePathWasTaken"
            \/ ctl \in LoadHandlers /\ \E f \in UserFiles : selection' = Decode(f).selection
       /\ phase = "Reduction" /\ phase' = "Blacklist" =>
            \/ ctl = "OnClearBranchWatch"
            \/ ctl \in LoadHandlers /\ \E f \in UserFiles : phase' = Decode(f).phase]_vars

\* Rows were deleted while the filter hides a member: the hidden member and a
\* visible one are what is left of the three.
C24_Witness ==
    /\ last = "OnTableDelete"
    /\ Len(selection) = 2
    /\ \E k \in SelSet : ~AcceptedRow(k)
    /\ \E k \in SelSet : AcceptedRow(k)
    /\ DOMAIN collection = SelSet

\* ------------------------------------------------------------------ C25
Excluders == {"OnCodePathNotTaken", "OnBranchWasOverwritten", "OnBranchNotOverwritten"}

Eligible == {k \in Recorded : ~collection[k].blacklisted}

\* In Blacklist phase a pass of one of the three only raises blacklisted flags.
OnlyExcludes ==
    /\ phase' = "Blacklist"
    /\ DOMAIN collection' = DOMAIN collection
    /\ \A k \in DOMAIN collection :
         /\ collection[k].blacklisted => collection'[k].blacklisted
         /\ collection'[k] = [collection[k] EXCEPT !.blacklisted = collection'[k].blacklisted]
    /\ selection' = <<>>

\* C25 as stated: in Blacklist phase the Selection is empty; a pass of Code
\* Path Not Taken, Branch Was Overwritten or Branch Not Overwritten in that
\* phase leaves the phase Blacklist, destroys no record, un-excludes none and
\* leaves the Selection empty; the Selection gets its members only in the
\* Code Path Was Taken pass that leaves Blacklist phase, and they are the
\* eligible (recorded, not excluded) identities.
C25_PopulatedOnlyByWasTaken ==
    [][/\ phase = "Blacklist" => selection = <<>>
       /\ phase = "Blacklist" /\ ctl \in Excluders /\ ctl' = "idle" => OnlyExcludes
       /\ ~(SelSet' \subseteq SelSet) =>
            /\ phase = "Blacklist" /\ ctl = "OnCodePathWasTaken"
            /\ SelSet' = Eligible]_vars

\* C25 as amended: the same, but a snapshot load that succeeds also gives
\* the Selection its members: those of the snapshot.
C25_PopulatedOnlyByWasTakenOrLoad ==
    [][/\ phase = "Blacklist" => selection = <<>>
       /\ phase = "Blacklist" /\ ctl \in Excluders /\ ctl' = "idle" => OnlyExcludes
       /\ ~(SelSet' \subseteq SelSet) =>
            \/ /\ phase = "Blacklist" /\ ctl = "OnCodePathWasTaken"
               /\ SelSet' = Eligible
            \/ /\ ctl \in LoadHandlers
               /\ \E f \in UserFiles : WellFormed(f) /\ selection' = Decode(f).selection]_vars

\* In Blacklist phase an overwritten pass has just run and has left an
\* excluded identity next to an eligible one.
C25_Witness ==
    /\ phase = "Blacklist"
    /\ ctl = "idle"
    /\ last \in {"OnBranchWasOverwritten", "OnBranchNotOverwritten"}
    /\ \E k \in Blacklisted : k # AllKeys[3]
    /\ Eligible # {}

\* ------------------------------------------------------------------ C26
\* C26: with the auto-save on (to the default file), the step that completes
\* a pass of Code Path Was Taken, Code Path Not Taken, Branch Was Overwritten
\* or Branch Not Overwritten and leaves the store non-empty runs under the
\* guard with the execution thread halted outside RecordHit, and the
\* snapshot it writes is the one of the store as the pass leaves it (the file
\* stays as it was only if it could not be opened); and whenever such a pass
\* is under way, the step that writes that snapshot can be taken.
C26_AutoSavedBeforeResume ==
    [][/\ ctl \in Reductions /\ ctl' = "idle" /\ autosave = "default" /\ CanSave(Store') =>
            /\ guard /\ cpu.pc = "run" /\ cpu' = cpu
            /\ collection' = Decode(Encode(Store')).collection
            /\ file' \in {Encode(Store'), file}
       /\ ctl \in Reductions /\ autosave = "default" =>
            ENABLED (/\ NextSnap
                     /\ ctl' = "idle"
                     /\ CanSave(Store') => file' = Encode(Store'))]_vars

\* With the auto-save on and recording active, a Code Path Not Taken pass in
\* Reduction phase has just written the snapshot of the store it left.
C26_Witness ==
    /\ autosave = "default"
    /\ last = "OnCodePathNotTaken"
    /\ ctl = "idle"
    /\ activity = "Active"
    /\ phase = "Reduction"
    /\ CanSave(Store)
    /\ file = Encode(Store)

\* ------------------------------------------------------------------ C27
\* C27: the destination column's Insert BLR acts only when the core is
\* initialized and the recorded instruction of every selected row has LK = 1,
\* and then writes 0x4e800020 at the destinations of those rows and sets their
\* inspected flags; a step in which a row whose instruction has LK = 0 becomes
\* inspected, or gets the blr at its destination, is not a step of that entry.
C27_BLROnlyWhenAllSaveLR ==
    [][/\ OnTableSetBLR =>
            /\ coreState # Uninitialized
            /\ \E rows \in (SUBSET VisibleRows) \ {{}} :
                  /\ \A k \in rows : k.original_inst % 2 = 1
                  /\ \A a \in Addrs :
                       mem'[a] = IF \E k \in rows : k.destin_addr = a
                                 THEN 1317011488 ELSE mem[a]
                  /\ \A k \in DOMAIN collection :
                       collection'[k].inspected = (collection[k].inspected \/ k \in rows)
       /\ (\E k \in DOMAIN collection \cap DOMAIN collection' :
              /\ k.original_inst % 2 = 0
              /\ \/ ~collection[k].inspected /\ collection'[k].inspected
                 \/ mem[k.destin_addr] # 1317011488 /\ mem'[k.destin_addr] = 1317011488)
            => last' # "OnTableSetBLR"]_vars

\* Insert BLR was applied to the row of the branch-and-link alone: its
\* destination holds the blr and it is inspected, while the row of the
\* conditional branch (LK = 0) is in the table, not inspected, its
\* destination as it was.
C27_Witness ==
    /\ last = "OnTableSetBLR"
    /\ AllKeys[3] \in SelSet /\ collection[AllKeys[3]].inspected
    /\ mem[AllKeys[3].destin_addr] = BLR_WORD
    /\ AllKeys[1] \in SelSet /\ ~collection[AllKeys[1]].inspected
    /\ mem[AllKeys[1].destin_addr] = InitialWord(AllKeys[1].destin_addr)

\* ------------------------------------------------------------------ C28
\* "Pause Branch Watch" is pressed while the core is running.
PausePressed ==
    /\ activity = "Active" /\ activity' = "Paused"
    /\ visible
    /\ coreState > Paused

\* The last refresh is scheduled and has not happened yet.
LastRefreshPending == activity = "Paused" /\ timerActive /\ timerSingleShot

\* What holds of every step and state, whatever the user does next: the
\* press leaves the timer active and single-shot; a single-shot timer that
\* times out calls Update and is inactive; and while the recording is not
\* active the timer is never active in periodic mode.
LastRefreshSafety ==
    /\ [][/\ PausePressed => timerActive' /\ timerSingleShot'
          /\ OnTimeout /\ timerSingleShot => ~timerActive' /\ status' = Update(Store)]_vars
    /\ [](activity # "Active" /\ timerActive => timerSingleShot)

\* C28 as stated: after the press the timer is single-shot, and the last
\* refresh eventually happens: the dialog is visible, the recording still
\* paused, and the timer, having fired, is inactive; no periodic refresh runs
\* while the recording is paused.
C28_LastRefreshFires ==
    /\ LastRefreshSafety
    /\ LastRefreshPending ~> (visible /\ activity = "Paused" /\ ~timerActive)

\* C28 as amended: the same, unless the dialog is hidden (the timer is
\* stopped and no refresh happens) or Start is pressed again (the timer is
\* periodic again) before the timer fires.
C28_LastRefreshFiresUnlessHiddenOrRestarted ==
    /\ LastRefreshSafety
    /\ LastRefreshPending ~> \/ visible /\ activity = "Paused" /\ ~timerActive
                             \/ ~visible /\ ~timerActive
                             \/ activity = "Active" /\ ~timerSingleShot

\* The last refresh has happened: the recording was paused while the core
\* runs, and the single-shot timer is inactive with the dialog still visible.
C28_Witness ==
    /\ last = "OnStartPause"
    /\ visible
    /\ activity = "Paused"
    /\ coreState > Paused
    /\ timerSingleShot
    /\ ~timerActive

\* ------------------------------------------------------------------ C29
\* C29: whenever the dialog is visible, the recording is active and the core
\* state is above Paused, the refresh timer is active and periodic; whenever
\* the dialog is hidden, the timer is inactive.
C29_TimerFollowsCondition ==
    /\ visible /\ activity = "Active" /\ coreState > 1 => timerActive /\ ~timerSingleShot
    /\ ~visible => ~timerActive

\* The dialog is visible, a hit is being recorded with the core running, the
\* timer is active and periodic, and the status bar shows the candidates of
\* a refresh.
C29_Witness ==
    /\ visible
    /\ activity = "Active"
    /\ coreState = Running
    /\ timerActive /\ ~timerSingleShot
    /\ Recorded # {}
    /\ status.candidates = Cardinality(Recorded)
    /\ cpu.pc # "run"

PassesConditionCheck(k) == IF k.condition THEN proxy.m_cond_true ELSE proxy.m_cond_false

\* C31 as stated: in every state the assertion of BranchSavesLR holds of the
\* instruction word of every row the filter passes to it, and of every row
\* the destination column's context menu can pass to it (a row of the view,
\* the core being initialized); and every identity in the Selection carries
\* a recognized branch instruction.
C31_AssertionHolds ==
    /\ \A k \in SelSet : PassesConditionCheck(k) => BranchSavesLR_DEBUG_ASSERT(k.original_inst)
    /\ coreState # Uninitialized =>
          \A k \in VisibleRows : BranchSavesLR_DEBUG_ASSERT(k.original_inst)
    /\ \A k \in SelSet : BranchSavesLR_DEBUG_ASSERT(k.original_inst)
====
